---------------------------- MODULE Spec2Model ----------------------------
(***************************************************************************)
(* Model of the GPU-aware custom scheduler                                 *)
(* (examples/08-custom-scheduler-binary/02-gpu-aware-scheduler.py).        *)
(*                                                                         *)
(* Scores are Python floats in the source.  Here every score is an exact   *)
(* integer in units of 1/160: 50 -> 8000, 0.3 -> 48, 30 -> 4800,           *)
(* 10 -> 1600, and the 1.5 NVLink factor is (3 * s) \div 2.  The GPU       *)
(* catalogue below is chosen so that every division is exact               *)
(* (ScoresExact).                                                          *)
(***************************************************************************)
EXTENDS Integers, Sequences, FiniteSets, TLC

VARIABLES
    gpu_state,     \* self.gpu_state: the cache, a dict kept in insertion order
    last_update,   \* self.last_update
    gpu_req,       \* schedule_pod / find_best_placement: gpu_req
    tp_size,       \* schedule_pod / find_best_placement: tp_size
    result,        \* the SchedulingResult of the last placement (None if none)
    sel_node,      \* select_gpu_set: position in the cache of its state argument
    selection,     \* select_gpu_set: the (gpu_set, score) it returned
    pc,            \* position of the program
    pod,           \* schedule_pod: the pod of the event being handled
    todo,          \* update_gpu_state: the nodes the for loop has yet to visit
    now,           \* the clock, time.time()
    cluster,       \* orchestrator: what list_node() returns
    bindings,      \* orchestrator: the accepted bindings, <<pod name, node name>>
    calls,         \* observer: the calls made while handling the current event
    entry,         \* observer: the cache and last_update when the event arrived
    error,         \* observer: the call whose exception ended run(), "" if none
    scores,        \* what score_single_gpu returned for each cached accelerator
    \* the operator (examples/06-crd-operator/operator.py)
    llmmodels,     \* orchestrator: the LLMModel resources that exist at start-up
    deployments,   \* orchestrator: the deployments, by LLMModel name
    statuses,      \* orchestrator: the status last patched into each LLMModel
    op_pc,         \* position of the operator
    items,         \* do_initial_reconciliation: the items yet to reconcile
    event,         \* watch_and_reconcile: the event being handled
    op_obs,        \* observer: what the handling of the current event did
    \* the simulated server (examples/16-model-warmup/docker/app.py)
    model_status,  \* the global ModelStatus
    loaders,       \* the threads started with target=load_model, by position
    request,       \* the request handler that is running, if any
    response,      \* the answer to the last request
    app_now,       \* the server's clock, datetime.now()
    \* the warm-up client (examples/16-model-warmup/warmup-client.py)
    client         \* the WarmupClient, its clock and the call of warmup() it runs

schedVars == <<gpu_state, last_update>>
placeVars == <<gpu_req, tp_size, result, sel_node, selection>>
envVars == <<now, cluster, bindings>>
schedulerVars == <<gpu_state, last_update, gpu_req, tp_size, result, sel_node,
                   selection, pc, pod, todo, now, cluster, bindings, calls,
                   entry, error, scores>>
operatorVars == <<llmmodels, deployments, statuses, op_pc, items, event, op_obs>>
appVars == <<model_status, loaders, request, response, app_now>>
clientVars == <<client>>
\* the variables of the programs other than the scheduler
otherPrograms == <<operatorVars, appVars, clientVars>>
vars == <<schedulerVars, operatorVars, appVars, clientVars>>

\* the operator process does not exist
OperatorNotRunning ==
    /\ llmmodels = <<>>
    /\ deployments = <<>>
    /\ statuses = <<>>
    /\ op_pc = "not running"
    /\ items = <<>>
    /\ event = <<>>
    /\ op_obs = <<>>

\* the scheduler process does not exist
SchedulerNotRunning ==
    /\ gpu_state = <<>>
    /\ last_update = 0
    /\ gpu_req = 0
    /\ tp_size = 0
    /\ result = <<>>
    /\ sel_node = 0
    /\ selection = <<>>
    /\ pc = "not running"
    /\ pod = <<>>
    /\ todo = <<>>
    /\ now = 0
    /\ cluster = <<>>
    /\ bindings = {}
    /\ calls = <<>>
    /\ entry = <<>>
    /\ error = ""
    /\ scores = <<>>

\* the simulated server process does not exist
AppNotRunning ==
    /\ model_status = <<>>
    /\ loaders = <<>>
    /\ request = <<>>
    /\ response = <<>>
    /\ app_now = 0

\* the warm-up client process does not exist
ClientNotRunning == client = <<>>

-----------------------------------------------------------------------------
(* Bounds of the model *)

\* most accelerators on the one node of a single-node cache
MaxGpus == 4
\* most accelerators on each node of a two-node cache
MaxPairGpus == 2
\* largest requested count / group size passed to find_best_placement
MaxReq == 4
\* the clock when the scheduler starts (time.time() is far above cache_ttl)
StartTime == 100
\* how far the clock runs past StartTime
MaxElapsed == 10

-----------------------------------------------------------------------------
(* Data *)

\* Python's None for an Optional[SchedulingResult]; no node is named "None".
None == [node |-> "None", gpus |-> <<>>, score |-> 0]

SchedulingResult(node, gpus, score) ==
    [node |-> node, gpus |-> gpus, score |-> score]

GPUInfo(gpu_index, kind) ==
    [gpu_index |-> gpu_index,
     memory_total |-> kind.memory_total,
     memory_free |-> kind.memory_free,
     utilization |-> kind.utilization,
     product |-> kind.product]

\* The two accelerators query_node_gpu_metrics reports for every node.
MockGpu0 == [memory_total |-> 81920, memory_free |-> 80896, utilization |-> 5,
             product |-> "H100"]
MockGpu1 == [memory_total |-> 81920, memory_free |-> 79872, utilization |-> 10,
             product |-> "H100"]
\* Further accelerator readings an inventory source can report:
\* one in use (under 1000 MB free), one with exactly 1000 MB free, and a
\* nearly full, busy A100 (just over 1000 MB free, low score).
BusyGpu == [memory_total |-> 81920, memory_free |-> 512, utilization |-> 95,
            product |-> "H100"]
EdgeGpu == [memory_total |-> 80000, memory_free |-> 1000, utilization |-> 0,
            product |-> "H100"]
LowGpu == [memory_total |-> 40960, memory_free |-> 2048, utilization |-> 90,
           product |-> "A100"]

GPUKinds == {MockGpu0, MockGpu1, BusyGpu, EdgeGpu, LowGpu}

\* every reading has an exact, even memory term in units of 1/160, so that the
\* integer scores equal the real-valued ones, the 1.5 factor included
ScoresExact ==
    \A k \in GPUKinds :
        /\ (k.memory_free * 8000) % k.memory_total = 0
        /\ ((k.memory_free * 8000) \div k.memory_total) % 2 = 0

RECURSIVE CountFree(_, _)
\* sum(1 for g in gpu_infos if g.memory_free > 1000), over gpu_infos[i..]
CountFree(gpu_infos, i) ==
    IF i > Len(gpu_infos) THEN 0
    ELSE (IF gpu_infos[i].memory_free > 1000 THEN 1 ELSE 0)
         + CountFree(gpu_infos, i + 1)

\* the node state with every accelerator counted as free
NodeGPUState_all_free(node_name, gpu_infos, nvlink_enabled, socket_count) ==
    [node_name |-> node_name,
     gpus |-> gpu_infos,
     total_gpus |-> Len(gpu_infos),
     free_gpus |-> Len(gpu_infos),
     nvlink_enabled |-> nvlink_enabled,
     socket_count |-> socket_count]

NodeGPUState(node_name, gpu_infos, nvlink_enabled, socket_count) ==
    [node_name |-> node_name,
     gpus |-> gpu_infos,
     total_gpus |-> Len(gpu_infos),
     free_gpus |-> CountFree(gpu_infos, 1),
     nvlink_enabled |-> nvlink_enabled,
     socket_count |-> socket_count]

-----------------------------------------------------------------------------
(* Placement engine *)

\* "H100" in gpu.product
IsH100(product) == product \in {"H100"}

\* the score with the utilization term reversed (busier scores higher)
score_single_gpu_busy_first(gpu, state) ==
    (gpu.memory_free * 8000) \div gpu.memory_total
    + gpu.utilization * 48
    + (IF IsH100(gpu.product) THEN 4800 ELSE 0)
    + (IF state.nvlink_enabled THEN 1600 ELSE 0)

score_single_gpu(gpu, state) ==
    (gpu.memory_free * 8000) \div gpu.memory_total
    + (100 - gpu.utilization) * 48
    + (IF IsH100(gpu.product) THEN 4800 ELSE 0)
    + (IF state.nvlink_enabled THEN 1600 ELSE 0)

RECURSIVE ScanGpus(_, _, _)
\* the inner loop of find_single_gpu_placement over state.gpus[i..];
\* best = None stands for best_score = -inf
ScanGpus(state, i, best) ==
    IF i > Len(state.gpus) THEN best
    ELSE LET gpu == state.gpus[i]
             score == score_single_gpu(gpu, state)
         IN  IF gpu.memory_free < 1000 THEN ScanGpus(state, i + 1, best)
             ELSE IF best = None \/ score > best.score
                  THEN ScanGpus(state, i + 1,
                           SchedulingResult(state.node_name,
                                            <<gpu.gpu_index>>, score))
                  ELSE ScanGpus(state, i + 1, best)

RECURSIVE ScanSingle(_, _, _, _)
\* the outer loop of find_single_gpu_placement over the cache entries k..
ScanSingle(cache, k, req, best) ==
    IF k > Len(cache) THEN best
    ELSE IF cache[k].free_gpus < req THEN ScanSingle(cache, k + 1, req, best)
         ELSE ScanSingle(cache, k + 1, req, ScanGpus(cache[k], 1, best))

find_single_gpu_placement(cache, req) == ScanSingle(cache, 1, req, None)

RECURSIVE SumScores(_, _, _)
\* sum(score_single_gpu(g, state) for g in selected), over selected[i..]
SumScores(selected, state, i) ==
    IF i > Len(selected) THEN 0
    ELSE score_single_gpu(selected[i], state) + SumScores(selected, state, i + 1)

\* [g.gpu_index for g in selected]
Indices(selected) == [i \in 1..Len(selected) |-> selected[i].gpu_index]

\* selected[:count]
Prefix(s, count) == SubSeq(s, 1, IF count < Len(s) THEN count ELSE Len(s))

RECURSIVE FreeGpus_at_least(_, _)
\* the free list with the threshold included: memory_free >= 1000
FreeGpus_at_least(gpus, i) ==
    IF i > Len(gpus) THEN <<>>
    ELSE (IF gpus[i].memory_free >= 1000 THEN <<gpus[i]>> ELSE <<>>)
         \o FreeGpus_at_least(gpus, i + 1)

RECURSIVE FreeGpus(_, _)
\* [g for g in state.gpus if g.memory_free > 1000], over gpus[i..]
FreeGpus(gpus, i) ==
    IF i > Len(gpus) THEN <<>>
    ELSE (IF gpus[i].memory_free > 1000 THEN <<gpus[i]>> ELSE <<>>)
         \o FreeGpus(gpus, i + 1)

RECURSIVE InsertByIndex(_, _)
\* g inserted into the index-sorted list s, after every entry with an equal
\* index (the sort is stable)
InsertByIndex(s, g) ==
    IF s = <<>> THEN <<g>>
    ELSE IF g.gpu_index < Head(s).gpu_index THEN <<g>> \o s
         ELSE <<Head(s)>> \o InsertByIndex(Tail(s), g)

RECURSIVE SortedByIndex(_, _)
\* sorted(gpus, key=lambda g: g.gpu_index), of gpus[1..n]
SortedByIndex(gpus, n) ==
    IF n = 0 THEN <<>>
    ELSE InsertByIndex(SortedByIndex(gpus, n - 1), gpus[n])

\* all(candidate[j].gpu_index + 1 == candidate[j + 1].gpu_index ...)
IsContiguous(candidate) ==
    \A j \in 1..(Len(candidate) - 1) :
        candidate[j].gpu_index + 1 = candidate[j + 1].gpu_index

RECURSIVE FirstWindow(_, _, _)
\* the loop of find_contiguous_gpus from window start i (1-based);
\* <<>> stands for None
FirstWindow(sorted, count, i) ==
    IF i > Len(sorted) - count + 1 THEN <<>>
    ELSE LET candidate == SubSeq(sorted, i, i + count - 1)
         IN  IF IsContiguous(candidate) THEN candidate
             ELSE FirstWindow(sorted, count, i + 1)

\* find_contiguous_gpus without the sort by gpu_index
find_contiguous_gpus_unsorted(gpus, count) == FirstWindow(gpus, count, 1)

find_contiguous_gpus(gpus, count) ==
    FirstWindow(SortedByIndex(gpus, Len(gpus)), count, 1)

\* select_gpu_set without the 1.5 factor for a contiguous set
select_gpu_set_no_bonus(state, count) ==
    LET free_gpus == FreeGpus(state.gpus, 1)
        firstN == Prefix(free_gpus, count)
        selected == find_contiguous_gpus(free_gpus, count)
    IN  IF Len(free_gpus) < count THEN [gpu_set |-> <<>>, score |-> 0]
        ELSE IF ~state.nvlink_enabled \/ count = 1 \/ selected = <<>>
             THEN [gpu_set |-> Indices(firstN),
                   score |-> SumScores(firstN, state, 1)]
             ELSE [gpu_set |-> Indices(selected),
                   score |-> SumScores(selected, state, 1)]

\* select_gpu_set giving up when no contiguous run exists
select_gpu_set_no_fallback(state, count) ==
    LET free_gpus == FreeGpus(state.gpus, 1)
        firstN == Prefix(free_gpus, count)
        selected == find_contiguous_gpus(free_gpus, count)
    IN  IF Len(free_gpus) < count THEN [gpu_set |-> <<>>, score |-> 0]
        ELSE IF ~state.nvlink_enabled \/ count = 1
             THEN [gpu_set |-> Indices(firstN),
                   score |-> SumScores(firstN, state, 1)]
             ELSE IF selected # <<>>
                  THEN [gpu_set |-> Indices(selected),
                        score |-> (SumScores(selected, state, 1) * 3) \div 2]
                  ELSE [gpu_set |-> <<>>, score |-> 0]

\* Returns (gpu_set, score); gpu_set = <<>> stands for the falsy values the
\* caller tests for (None or the empty list).
select_gpu_set(state, count) ==
    LET free_gpus == FreeGpus(state.gpus, 1)
        firstN == Prefix(free_gpus, count)
        selected == find_contiguous_gpus(free_gpus, count)
    IN  IF Len(free_gpus) < count THEN [gpu_set |-> <<>>, score |-> 0]
        ELSE IF ~state.nvlink_enabled \/ count = 1
             THEN [gpu_set |-> Indices(firstN),
                   score |-> SumScores(firstN, state, 1)]
             ELSE IF selected # <<>>
                  THEN [gpu_set |-> Indices(selected),
                        score |-> (SumScores(selected, state, 1) * 3) \div 2]
                  ELSE [gpu_set |-> Indices(firstN),
                        score |-> SumScores(firstN, state, 1)]

RECURSIVE ScanMulti_last_wins(_, _, _, _)
\* the loop keeping the later node when two scores are equal
ScanMulti_last_wins(cache, k, tp, best) ==
    IF k > Len(cache) THEN best
    ELSE IF cache[k].free_gpus < tp
         THEN ScanMulti_last_wins(cache, k + 1, tp, best)
         ELSE LET sel == select_gpu_set(cache[k], tp)
              IN  IF sel.gpu_set # <<>> /\ (best = None \/ sel.score >= best.score)
                  THEN ScanMulti_last_wins(cache, k + 1, tp,
                           SchedulingResult(cache[k].node_name,
                                            sel.gpu_set, sel.score))
                  ELSE ScanMulti_last_wins(cache, k + 1, tp, best)

RECURSIVE ScanMulti(_, _, _, _)
\* the loop of find_multi_gpu_placement over the cache entries k..
ScanMulti(cache, k, tp, best) ==
    IF k > Len(cache) THEN best
    ELSE IF cache[k].free_gpus < tp THEN ScanMulti(cache, k + 1, tp, best)
         ELSE LET sel == select_gpu_set(cache[k], tp)
              IN  IF sel.gpu_set # <<>> /\ (best = None \/ sel.score > best.score)
                  THEN ScanMulti(cache, k + 1, tp,
                           SchedulingResult(cache[k].node_name,
                                            sel.gpu_set, sel.score))
                  ELSE ScanMulti(cache, k + 1, tp, best)

\* gpu_req is a parameter of the source function and is not read by it
find_multi_gpu_placement(cache, req, tp) == ScanMulti(cache, 1, tp, None)

find_best_placement(cache, req, tp) ==
    IF tp <= 1 THEN find_single_gpu_placement(cache, req)
    ELSE find_multi_gpu_placement(cache, req, tp)

-----------------------------------------------------------------------------
(* Scheduler configuration and the objects it reads *)

\* scheduler_name: str = "gpu-aware-scheduler"
SchedulerName == "gpu-aware-scheduler"
\* self.cache_ttl
cache_ttl == 10

\* a key that is missing from a dict, an attribute that is None
Absent == "<absent>"
NoNode == ""

\* int(s): the strings it accepts and their values; any other string raises
Parses(s) == s \in {"0", "1", "2", "3", "4"}
ParseInt(s) ==
    CASE s = "0" -> 0 [] s = "1" -> 1 [] s = "2" -> 2 [] s = "3" -> 3
      [] s = "4" -> 4

Returned(v) == [raised |-> FALSE, value |-> v]
Raised == [raised |-> TRUE, value |-> 0]

\* a launch argument is held as the parts arg.split("=") yields; NoArg is a
\* container without args
TpFlag == "--tensor-parallel-size"
NoArg == <<>>
TpArg(value) == <<TpFlag, value>>
BareTpArg == <<TpFlag>>

get_gpu_requirement(p) ==
    IF ~p.containers THEN Returned(0)
    ELSE LET gpu_str == IF p.gpu_request = Absent THEN "0" ELSE p.gpu_request
         IN  IF Parses(gpu_str) THEN Returned(ParseInt(gpu_str)) ELSE Raised

get_tensor_parallel_size(p) ==
    IF p.tp_env # Absent
    THEN (IF Parses(p.tp_env) THEN Returned(ParseInt(p.tp_env)) ELSE Raised)
    ELSE IF p.tp_arg # NoArg /\ p.tp_arg[1] = TpFlag
         THEN (IF Len(p.tp_arg) >= 2 /\ Parses(p.tp_arg[2])
               THEN Returned(ParseInt(p.tp_arg[2]))
               ELSE Raised)
         ELSE get_gpu_requirement(p)

check_nvlink_enabled(node) ==
    (IF node.nvlink = Absent THEN "false" ELSE node.nvlink) = "true"

get_socket_count(node) ==
    LET label == IF node.sockets = Absent THEN "1" ELSE node.sockets
    IN  IF Parses(label) THEN Returned(ParseInt(label)) ELSE Raised

\* The answer of the inventory source for a node; <<>> when the query failed
\* (the except branch).  The source answers MockInventory for every node.
query_node_gpu_metrics(node) == node.inventory

\* self.gpu_state[node_name] = state
DictSet(cache, state) ==
    IF \E k \in 1..Len(cache) : cache[k].node_name = state.node_name
    THEN [k \in 1..Len(cache) |->
             IF cache[k].node_name = state.node_name THEN state ELSE cache[k]]
    ELSE Append(cache, state)

-----------------------------------------------------------------------------
(* The environment: nodes, inventories, pods *)

NodeNames == {"A", "B"}
PodNames == {"p1", "p2"}

MockInventory == <<GPUInfo(0, MockGpu0), GPUInfo(1, MockGpu1)>>
HalfBusyInventory == <<GPUInfo(0, MockGpu0), GPUInfo(1, BusyGpu)>>

V1Node(name, capacity, nvlink, sockets, inventory) ==
    [name |-> name, capacity |-> capacity, nvlink |-> nvlink,
     sockets |-> sockets, inventory |-> inventory]

\* the nodes a listing can hold under a given name
NodeChoices(name) ==
    { V1Node(name, "2", "true", "2", MockInventory),
      V1Node(name, "2", Absent, Absent, HalfBusyInventory),
      V1Node(name, Absent, Absent, "1", <<>>),
      V1Node(name, "2", "false", "1", <<>>),
      V1Node(name, "2", "true", "two", MockInventory),
      V1Node(name, "0", "false", "1", MockInventory) }

Clusters ==
    {<<>>} \cup { <<a>> : a \in NodeChoices("A") }
           \cup { <<b>> : b \in NodeChoices("B") }
           \cup { <<a, b>> : a \in NodeChoices("A"), b \in NodeChoices("B") }

V1Pod(name, scheduler_name, node_name, deletion, gpu_request, tp_env, tp_arg) ==
    [name |-> name, scheduler_name |-> scheduler_name, node_name |-> node_name,
     deletion_timestamp |-> deletion, containers |-> TRUE,
     gpu_request |-> gpu_request, tp_env |-> tp_env, tp_arg |-> tp_arg]

NoPod == V1Pod("", "", NoNode, FALSE, Absent, Absent, NoArg)

\* the pods an event can carry for a workload whose recorded node is node_name
PodChoices(name, node_name) ==
    { V1Pod(name, SchedulerName, node_name, FALSE, "1", Absent, NoArg),
      V1Pod(name, SchedulerName, node_name, FALSE, "2", Absent, NoArg),
      V1Pod(name, SchedulerName, node_name, FALSE, "3", "2", NoArg),
      V1Pod(name, SchedulerName, node_name, FALSE, "3", Absent, NoArg),
      V1Pod(name, SchedulerName, node_name, FALSE, "2", Absent, TpArg("1")),
      V1Pod(name, SchedulerName, node_name, FALSE, "1", "2", TpArg("1")),
      V1Pod(name, SchedulerName, node_name, FALSE, Absent, Absent, NoArg),
      V1Pod(name, SchedulerName, node_name, FALSE, "1Gi", Absent, NoArg),
      V1Pod(name, SchedulerName, node_name, FALSE, "0", "2", BareTpArg),
      V1Pod(name, SchedulerName, node_name, FALSE, "2", Absent, BareTpArg),
      V1Pod(name, SchedulerName, node_name, TRUE, "1", Absent, NoArg),
      V1Pod(name, "default-scheduler", node_name, FALSE, "1", Absent, NoArg) }

\* the node the orchestrator has recorded for a pod, NoNode if none
BoundNode(name) ==
    IF \E n \in NodeNames : <<name, n>> \in bindings
    THEN CHOOSE n \in NodeNames : <<name, n>> \in bindings
    ELSE NoNode

NoCalls == [list_node |-> 0, query |-> [n \in NodeNames |-> 0],
            place |-> 0, bind |-> 0]

-----------------------------------------------------------------------------
(* The event loop *)

Init ==
    /\ gpu_state = <<>>
    /\ last_update = 0
    /\ gpu_req = 0
    /\ tp_size = 0
    /\ result = None
    /\ sel_node = 0
    /\ selection = [gpu_set |-> <<>>, score |-> 0]
    /\ pc = "watch"
    /\ pod = NoPod
    /\ todo = <<>>
    /\ now = StartTime
    /\ cluster \in Clusters
    /\ bindings = {}
    /\ calls = NoCalls
    /\ entry = [gpu_state |-> <<>>, last_update |-> 0]
    /\ error = ""
    /\ scores = <<>>
    /\ OperatorNotRunning
    /\ AppNotRunning
    /\ ClientNotRunning

\* the exception of a call leaves schedule_pod, run and main: the process ends
Crash(call) ==
    /\ pc' = "crashed"
    /\ error' = call

\* run: the stream yields the next event; the pod it carries records the
\* workload's node as it is now, or as it was before the workload was bound
\* the stream handing over an event while schedule_pod is still deciding
Deliver_overlapping ==
    /\ pc \in {"watch", "decide"}
    /\ \E name \in PodNames : \E node_name \in {NoNode, BoundNode(name)} :
            pod' \in PodChoices(name, node_name)
    /\ pc' = "schedule"
    /\ calls' = NoCalls
    /\ entry' = [gpu_state |-> gpu_state, last_update |-> last_update]
    /\ UNCHANGED <<schedVars, placeVars, envVars, todo, error>>
    /\ UNCHANGED <<scores, otherPrograms>>

Deliver ==
    /\ pc = "watch"
    /\ \E name \in PodNames : \E node_name \in {NoNode, BoundNode(name)} :
            pod' \in PodChoices(name, node_name)
    /\ pc' = "schedule"
    /\ calls' = NoCalls
    /\ entry' = [gpu_state |-> gpu_state, last_update |-> last_update]
    /\ UNCHANGED <<schedVars, placeVars, envVars, todo, error>>
    /\ UNCHANGED <<scores, otherPrograms>>

\* schedule_pod without the test of pod.spec.node_name
SchedulePod_no_node_test ==
    /\ pc = "schedule"
    /\ IF pod.scheduler_name # SchedulerName THEN pc' = "returned"
       ELSE IF pod.deletion_timestamp
            THEN pc' = "returned"
            ELSE pc' = "update"
    /\ UNCHANGED <<schedVars, placeVars, envVars, pod, todo, calls, entry, error>>
    /\ UNCHANGED <<scores, otherPrograms>>

\* schedule_pod without the test of pod.metadata.deletion_timestamp
SchedulePod_no_deletion_test ==
    /\ pc = "schedule"
    /\ IF pod.scheduler_name # SchedulerName THEN pc' = "returned"
       ELSE IF pod.node_name # NoNode
            THEN pc' = "returned"
            ELSE pc' = "update"
    /\ UNCHANGED <<schedVars, placeVars, envVars, pod, todo, calls, entry, error>>
    /\ UNCHANGED <<scores, otherPrograms>>

\* schedule_pod up to the call of update_gpu_state
SchedulePod ==
    /\ pc = "schedule"
    /\ IF pod.scheduler_name # SchedulerName THEN pc' = "returned"
       ELSE IF pod.node_name # NoNode \/ pod.deletion_timestamp
            THEN pc' = "returned"
            ELSE pc' = "update"
    /\ UNCHANGED <<schedVars, placeVars, envVars, pod, todo, calls, entry, error>>
    /\ UNCHANGED <<scores, otherPrograms>>

\* update_gpu_state up to the for loop
\* update_gpu_state refilling the dictionary without emptying it first
UpdateGpuState_keep_entries ==
    /\ pc = "update"
    /\ IF now - last_update < cache_ttl
       THEN /\ pc' = "decide"
            /\ UNCHANGED <<schedVars, todo, calls, error>>
       ELSE /\ calls' = [calls EXCEPT !.list_node = @ + 1]
            /\ \/ /\ Crash("list_node")
                  /\ UNCHANGED <<schedVars, todo>>
               \/ /\ todo' = cluster
                  /\ pc' = "refresh"
                  /\ UNCHANGED <<gpu_state, last_update, error>>
    /\ UNCHANGED <<placeVars, envVars, pod, entry>>
    /\ UNCHANGED <<scores, otherPrograms>>

UpdateGpuState ==
    /\ pc = "update"
    /\ IF now - last_update < cache_ttl
       THEN /\ pc' = "decide"
            /\ UNCHANGED <<schedVars, todo, calls, error>>
       ELSE /\ calls' = [calls EXCEPT !.list_node = @ + 1]
            /\ \/ /\ Crash("list_node")
                  /\ UNCHANGED <<schedVars, todo>>
               \/ /\ gpu_state' = <<>>
                  /\ todo' = cluster
                  /\ pc' = "refresh"
                  /\ UNCHANGED <<last_update, error>>
    /\ UNCHANGED <<placeVars, envVars, pod, entry>>
    /\ UNCHANGED <<scores, otherPrograms>>

\* one iteration of the for loop of update_gpu_state
RefreshNode ==
    /\ pc = "refresh"
    /\ todo # <<>>
    /\ LET node == Head(todo)
           gpu_infos == query_node_gpu_metrics(node)
           socket_count == get_socket_count(node)
       IN  IF node.capacity = Absent
           THEN /\ todo' = Tail(todo)
                /\ UNCHANGED <<gpu_state, calls, pc, error>>
           ELSE /\ calls' = [calls EXCEPT !.query[node.name] = @ + 1]
                /\ IF gpu_infos = <<>>
                   THEN /\ todo' = Tail(todo)
                        /\ UNCHANGED <<gpu_state, pc, error>>
                   ELSE IF socket_count.raised
                        THEN /\ Crash("get_socket_count")
                             /\ UNCHANGED <<gpu_state, todo>>
                        ELSE /\ gpu_state' = DictSet(gpu_state,
                                    NodeGPUState(node.name, gpu_infos,
                                        check_nvlink_enabled(node),
                                        socket_count.value))
                             /\ todo' = Tail(todo)
                             /\ UNCHANGED <<pc, error>>
    /\ UNCHANGED <<last_update, placeVars, envVars, pod, entry>>
    /\ UNCHANGED <<scores, otherPrograms>>

\* the end of update_gpu_state
RefreshDone ==
    /\ pc = "refresh"
    /\ todo = <<>>
    /\ last_update' = now
    /\ pc' = "decide"
    /\ UNCHANGED <<gpu_state, placeVars, envVars, pod, todo, calls, entry, error>>
    /\ UNCHANGED <<scores, otherPrograms>>

\* bind_pod: create_namespaced_pod_binding succeeds only for a pod no node is
\* recorded for (else the orchestrator answers a conflict), and like every
\* request it may fail; both failures raise
BindOutcomes(name) ==
    (IF BoundNode(name) = NoNode THEN {"ok"} ELSE {"conflict"}) \cup {"error"}

\* schedule_pod after update_gpu_state
\* schedule_pod marking the cache stale after a binding it made
Decide_invalidating ==
    /\ pc = "decide"
    /\ LET req == get_gpu_requirement(pod)
           tp == get_tensor_parallel_size(pod)
           r == find_best_placement(gpu_state, req.value, tp.value)
       IN  IF req.raised
           THEN /\ Crash("get_gpu_requirement")
                /\ UNCHANGED <<placeVars, bindings, calls>>
           ELSE IF req.value = 0
           THEN /\ pc' = "returned"
                /\ UNCHANGED <<placeVars, bindings, calls, error>>
           ELSE IF tp.raised
           THEN /\ Crash("get_tensor_parallel_size")
                /\ UNCHANGED <<placeVars, bindings, calls>>
           ELSE /\ gpu_req' = req.value
                /\ tp_size' = tp.value
                /\ result' = r
                /\ UNCHANGED <<sel_node, selection>>
                /\ IF r = None
                   THEN /\ calls' = [calls EXCEPT !.place = @ + 1]
                        /\ pc' = "returned"
                        /\ UNCHANGED <<bindings, error>>
                   ELSE /\ calls' = [calls EXCEPT !.place = @ + 1, !.bind = @ + 1]
                        /\ \E outcome \in BindOutcomes(pod.name) :
                            IF outcome = "ok"
                            THEN /\ bindings' = bindings \cup {<<pod.name, r.node>>}
                                 /\ pc' = "returned"
                                 /\ UNCHANGED error
                            ELSE /\ Crash("bind_pod")
                                 /\ UNCHANGED bindings
    /\ last_update' = IF pc' = "returned" /\ calls'.bind = 1 THEN 0
                                                               ELSE last_update
    /\ UNCHANGED <<gpu_state, now, cluster, pod, todo, entry>>
    /\ UNCHANGED <<scores, otherPrograms>>

\* schedule_pod going on to the placement for a request of 0
Decide_no_short_circuit ==
    /\ pc = "decide"
    /\ LET req == get_gpu_requirement(pod)
           tp == get_tensor_parallel_size(pod)
           r == find_best_placement(gpu_state, req.value, tp.value)
       IN  IF req.raised
           THEN /\ Crash("get_gpu_requirement")
                /\ UNCHANGED <<placeVars, bindings, calls>>
           ELSE IF req.value < 0
           THEN /\ pc' = "returned"
                /\ UNCHANGED <<placeVars, bindings, calls, error>>
           ELSE IF tp.raised
           THEN /\ Crash("get_tensor_parallel_size")
                /\ UNCHANGED <<placeVars, bindings, calls>>
           ELSE /\ gpu_req' = req.value
                /\ tp_size' = tp.value
                /\ result' = r
                /\ UNCHANGED <<sel_node, selection>>
                /\ IF r = None
                   THEN /\ calls' = [calls EXCEPT !.place = @ + 1]
                        /\ pc' = "returned"
                        /\ UNCHANGED <<bindings, error>>
                   ELSE /\ calls' = [calls EXCEPT !.place = @ + 1, !.bind = @ + 1]
                        /\ \E outcome \in BindOutcomes(pod.name) :
                            IF outcome = "ok"
                            THEN /\ bindings' = bindings \cup {<<pod.name, r.node>>}
                                 /\ pc' = "returned"
                                 /\ UNCHANGED error
                            ELSE /\ Crash("bind_pod")
                                 /\ UNCHANGED bindings
    /\ UNCHANGED <<schedVars, now, cluster, pod, todo, entry>>
    /\ UNCHANGED <<scores, otherPrograms>>

Decide ==
    /\ pc = "decide"
    /\ LET req == get_gpu_requirement(pod)
           tp == get_tensor_parallel_size(pod)
           r == find_best_placement(gpu_state, req.value, tp.value)
       IN  IF req.raised
           THEN /\ Crash("get_gpu_requirement")
                /\ UNCHANGED <<placeVars, bindings, calls>>
           ELSE IF req.value = 0
           THEN /\ pc' = "returned"
                /\ UNCHANGED <<placeVars, bindings, calls, error>>
           ELSE IF tp.raised
           THEN /\ Crash("get_tensor_parallel_size")
                /\ UNCHANGED <<placeVars, bindings, calls>>
           ELSE /\ gpu_req' = req.value
                /\ tp_size' = tp.value
                /\ result' = r
                /\ UNCHANGED <<sel_node, selection>>
                /\ IF r = None
                   THEN /\ calls' = [calls EXCEPT !.place = @ + 1]
                        /\ pc' = "returned"
                        /\ UNCHANGED <<bindings, error>>
                   ELSE /\ calls' = [calls EXCEPT !.place = @ + 1, !.bind = @ + 1]
                        /\ \E outcome \in BindOutcomes(pod.name) :
                            IF outcome = "ok"
                            THEN /\ bindings' = bindings \cup {<<pod.name, r.node>>}
                                 /\ pc' = "returned"
                                 /\ UNCHANGED error
                            ELSE /\ Crash("bind_pod")
                                 /\ UNCHANGED bindings
    /\ UNCHANGED <<schedVars, now, cluster, pod, todo, entry>>
    /\ UNCHANGED <<scores, otherPrograms>>

\* run: schedule_pod returned, the for loop takes the next event
NextEvent ==
    /\ pc = "returned"
    /\ pc' = "watch"
    /\ pod' = NoPod
    /\ calls' = NoCalls
    /\ gpu_req' = 0
    /\ tp_size' = 0
    /\ result' = None
    /\ UNCHANGED <<schedVars, sel_node, selection, envVars, todo, entry, error>>
    /\ UNCHANGED <<scores, otherPrograms>>

\* the generator returned by Watch().stream is exhausted: the for loop of
\* run() ends, run() returns to main() and main() returns
StreamEnds ==
    /\ pc = "watch"
    /\ pc' = "exited"
    /\ UNCHANGED <<schedVars, placeVars, pod, todo, envVars, calls, entry,
                   error>>
    /\ UNCHANGED <<scores, otherPrograms>>

\* time passes between two events
Tick ==
    /\ pc = "watch"
    /\ \E d \in {cache_ttl - 1, cache_ttl} :
        /\ now + d <= StartTime + MaxElapsed
        /\ now' = now + d
    /\ UNCHANGED <<schedVars, placeVars, pc, pod, todo, cluster, bindings,
                   calls, entry, error>>
    /\ UNCHANGED <<scores, otherPrograms>>

\* a node disappears from the orchestrator's node list
NodeLeaves ==
    /\ pc = "watch"
    /\ \E k \in 1..Len(cluster) :
        cluster' = SubSeq(cluster, 1, k - 1) \o SubSeq(cluster, k + 1, Len(cluster))
    /\ UNCHANGED <<schedVars, placeVars, pc, pod, todo, now, bindings, calls,
                   entry, error>>
    /\ UNCHANGED <<scores, otherPrograms>>

\* another binder claims an unbound workload
OtherBind ==
    /\ pc = "watch"
    /\ \E name \in PodNames, n \in NodeNames :
        /\ BoundNode(name) = NoNode
        /\ bindings' = bindings \cup {<<name, n>>}
    /\ UNCHANGED <<schedVars, placeVars, pc, pod, todo, now, cluster, calls,
                   entry, error>>
    /\ UNCHANGED <<scores, otherPrograms>>

Next ==
    \/ Deliver
    \/ SchedulePod
    \/ UpdateGpuState
    \/ RefreshNode
    \/ RefreshDone
    \/ Decide
    \/ NextEvent
    \/ StreamEnds
    \/ Tick
    \/ NodeLeaves
    \/ OtherBind

Spec == Init /\ [][Next]_vars

-----------------------------------------------------------------------------
(* Cache contents for the placement engine *)

\* n accelerators with indices 0..n-1 and the readings kinds[1..n], reported in
\* ascending or in descending index order
Inventory(kinds, ascending) ==
    LET n == Len(kinds)
    IN  [i \in 1..n |->
            IF ascending THEN GPUInfo(i - 1, kinds[i])
            ELSE GPUInfo(n - i, kinds[n - i + 1])]

\* one node, 1..MaxGpus accelerators of any kind, either report order
SingleNodeCaches ==
    { <<NodeGPUState("A", Inventory(kinds, asc), nv, 1)>> :
        kinds \in UNION {[1..n -> GPUKinds] : n \in 1..MaxGpus},
        asc \in BOOLEAN, nv \in BOOLEAN }

PairKinds == {MockGpu0, LowGpu, BusyGpu}

PairNodeStates(name) ==
    { NodeGPUState(name, Inventory(kinds, TRUE), nv, 1) :
        kinds \in UNION {[1..n -> PairKinds] : n \in 1..MaxPairGpus},
        nv \in BOOLEAN }

\* two nodes, A before B
PairCaches == { <<a, b>> : a \in PairNodeStates("A"), b \in PairNodeStates("B") }

\* The end-to-end scenario: A and B with accelerators 0..3, all free, the same
\* reading at the same index, interconnect on A only; either iteration order.
FreeKinds == {k \in GPUKinds : k.memory_free > 1000}

ScenarioNode(name, kinds, nv) == NodeGPUState(name, Inventory(kinds, TRUE), nv, 1)

ScenarioCaches ==
    { IF aFirst
      THEN <<ScenarioNode("A", kinds, TRUE), ScenarioNode("B", kinds, FALSE)>>
      ELSE <<ScenarioNode("B", kinds, FALSE), ScenarioNode("A", kinds, TRUE)>> :
        kinds \in [1..4 -> FreeKinds], aFirst \in BOOLEAN }

IsScenario(cache) ==
    /\ Len(cache) = 2
    /\ \E a, b \in 1..2 :
        /\ cache[a].node_name = "A" /\ cache[b].node_name = "B"
        /\ cache[a].nvlink_enabled /\ ~cache[b].nvlink_enabled
        /\ cache[a].gpus = cache[b].gpus
        /\ Len(cache[a].gpus) = 4
        /\ \A i \in 1..4 : /\ cache[a].gpus[i].gpu_index = i - 1
                           /\ cache[a].gpus[i].memory_free > 1000

Caches == {<<>>} \cup SingleNodeCaches \cup PairCaches \cup ScenarioCaches

-----------------------------------------------------------------------------
(* The placement engine applied to a cache: find_best_placement as a        *)
(* function of (cache, gpu_req, tp_size).                                   *)

NoSelection == [gpu_set |-> <<>>, score |-> 0]

InitPlace ==
    /\ gpu_state \in Caches
    /\ last_update = 0
    /\ gpu_req \in 0..MaxReq
    /\ tp_size \in 0..MaxReq
    /\ result = None
    /\ sel_node = 0
    /\ selection = NoSelection
    /\ pc = "place"
    /\ pod = NoPod
    /\ todo = <<>>
    /\ now = StartTime
    /\ cluster = <<>>
    /\ bindings = {}
    /\ calls = NoCalls
    /\ entry = [gpu_state |-> gpu_state, last_update |-> 0]
    /\ error = ""
    /\ scores = <<>>
    /\ OperatorNotRunning
    /\ AppNotRunning
    /\ ClientNotRunning

\* find_best_placement(gpu_req, tp_size, pod) on the cache
\* find_best_placement sorting every node's accelerator list in place
Place_sorting_cache ==
    /\ pc = "place"
    /\ result' = find_best_placement(gpu_state, gpu_req, tp_size)
    /\ gpu_state' = [k \in 1..Len(gpu_state) |->
                        [gpu_state[k] EXCEPT
                            !.gpus = SortedByIndex(@, Len(@))]]
    /\ pc' = "placed"
    /\ UNCHANGED <<last_update, gpu_req, tp_size, sel_node, selection,
                   pod, todo, now, cluster, bindings, calls, entry, error>>
    /\ UNCHANGED <<scores, otherPrograms>>

Place ==
    /\ pc = "place"
    /\ result' = find_best_placement(gpu_state, gpu_req, tp_size)
    /\ pc' = "placed"
    /\ UNCHANGED <<gpu_state, last_update, gpu_req, tp_size, sel_node, selection,
                   pod, todo, now, cluster, bindings, calls, entry, error>>
    /\ UNCHANGED <<scores, otherPrograms>>

\* select_gpu_set(state, tp_size, pod) on one entry of the cache
Select ==
    /\ pc = "place"
    /\ \E k \in 1..Len(gpu_state) :
        /\ sel_node' = k
        /\ selection' = select_gpu_set(gpu_state[k], tp_size)
    /\ pc' = "selected"
    /\ UNCHANGED <<gpu_state, last_update, gpu_req, tp_size, result,
                   pod, todo, now, cluster, bindings, calls, entry, error>>
    /\ UNCHANGED <<scores, otherPrograms>>

\* a second find_best_placement(gpu_req, tp_size, pod) on the same scheduler
PlaceAgain ==
    /\ pc = "placed"
    /\ result' = find_best_placement(gpu_state, gpu_req, tp_size)
    /\ pc' = "placed_again"
    /\ UNCHANGED <<gpu_state, last_update, gpu_req, tp_size, sel_node, selection,
                   pod, todo, now, cluster, bindings, calls, entry, error>>
    /\ UNCHANGED <<scores, otherPrograms>>

NextPlace == Place \/ Select \/ PlaceAgain

SpecPlace == InitPlace /\ [][NextPlace]_vars

-----------------------------------------------------------------------------
(* score_single_gpu over a grid of readings (SpecScore) *)

\* readings over the whole range of each input: free memory from 0 to all of
\* it, utilization from 0 to 100, both accelerator classes; every memory term
\* is exact in units of 1/160
ScoreReadings ==
    {[memory_total |-> t, memory_free |-> f, utilization |-> u, product |-> p] :
        t \in {40960, 81920}, f \in {0, 1024, 20480, 40960, 81920},
        u \in {0, 50, 100}, p \in {"H100", "A100"}}

ScoreNode(name, reading, nvlink) ==
    NodeGPUState(name, <<GPUInfo(0, reading)>>, nvlink, 1)

\* two nodes of one accelerator each
ScoreCaches ==
    {<<ScoreNode("A", a, na), ScoreNode("B", b, nb)>> :
        a \in {r \in ScoreReadings : r.memory_free <= r.memory_total},
        b \in {r \in ScoreReadings : r.memory_free <= r.memory_total},
        na \in BOOLEAN, nb \in BOOLEAN}

InitScore ==
    /\ gpu_state \in ScoreCaches
    /\ last_update = 0
    /\ gpu_req = 0
    /\ tp_size = 0
    /\ result = None
    /\ sel_node = 0
    /\ selection = NoSelection
    /\ pc = "score"
    /\ pod = NoPod
    /\ todo = <<>>
    /\ now = StartTime
    /\ cluster = <<>>
    /\ bindings = {}
    /\ calls = NoCalls
    /\ entry = [gpu_state |-> gpu_state, last_update |-> 0]
    /\ error = ""
    /\ scores = <<>>
    /\ OperatorNotRunning
    /\ AppNotRunning
    /\ ClientNotRunning

\* score_single_gpu(gpu, state, pod) for the accelerator of every node
ScoreGpus ==
    /\ pc = "score"
    /\ scores' = [k \in 1..Len(gpu_state) |->
                     score_single_gpu(gpu_state[k].gpus[1], gpu_state[k])]
    /\ pc' = "scored"
    /\ UNCHANGED <<gpu_state, last_update, placeVars, pod, todo, envVars, calls,
                   entry, error, otherPrograms>>

NextScore == ScoreGpus

SpecScore == InitScore /\ [][NextScore]_vars

-----------------------------------------------------------------------------
(* Properties of the placement engine (checked under SpecPlace) *)

\* the cache entries named node
EntriesOf(cache, node) == {k \in 1..Len(cache) : cache[k].node_name = node}

\* C1: the node of a returned decision is never a node whose free_gpus is
\* smaller than the requested count, on either path and whatever the relation
\* between tp_size and gpu_req.
C1_NodeHasRequestedFree ==
    (pc = "placed" /\ result # None) =>
        \A k \in EntriesOf(gpu_state, result.node) :
            gpu_state[k].free_gpus >= gpu_req

\* The accelerators the single path may choose according to the claim: the free
\* ones (memory_free > 1000) of the nodes with free_gpus >= gpu_req, as
\* <<cache position, position in the node's list>>.
SingleCandidates(cache, req) ==
    {<<k, i>> \in (1..Len(cache)) \X (1..MaxGpus + 1) :
        /\ i <= Len(cache[k].gpus)
        /\ cache[k].free_gpus >= req
        /\ cache[k].gpus[i].memory_free > 1000}

CandidateScore(cache, c) == score_single_gpu(cache[c[1]].gpus[c[2]], cache[c[1]])

\* c comes before d in (node-iteration, accelerator) order
Before(c, d) == c[1] < d[1] \/ (c[1] = d[1] /\ c[2] < d[2])

\* C2: for tp_size <= 1 the result is the first accelerator of maximal score
\* among the free accelerators (memory_free > 1000, the ones free_gpus counts)
\* of the nodes with free_gpus >= gpu_req, and None when there is none.
\* Stated for the requests schedule_pod passes on (gpu_req is not 0).
C2_SingleIsFirstArgmaxOfFree ==
    (pc = "placed" /\ tp_size <= 1 /\ gpu_req >= 1) =>
        LET cands == SingleCandidates(gpu_state, gpu_req)
        IN  IF cands = {} THEN result = None
            ELSE \E c \in cands :
                /\ result = SchedulingResult(gpu_state[c[1]].node_name,
                                <<gpu_state[c[1]].gpus[c[2]].gpu_index>>,
                                CandidateScore(gpu_state, c))
                /\ \A d \in cands :
                    /\ CandidateScore(gpu_state, d) <= CandidateScore(gpu_state, c)
                    /\ (CandidateScore(gpu_state, d) = CandidateScore(gpu_state, c)
                            => ~Before(d, c))

\* the indices of the free accelerators of a node
FreeIndexSet(state) ==
    {state.gpus[i].gpu_index :
        i \in {j \in 1..Len(state.gpus) : state.gpus[j].memory_free > 1000}}

\* the starts r of the runs r, r+1, ..., r+count-1 of free indices
RunStarts(state, count) ==
    {r \in FreeIndexSet(state) :
        \A j \in 0..(count - 1) : r + j \in FreeIndexSet(state)}

Least(S) == CHOOSE x \in S : \A y \in S : x <= y

\* the accelerator of a node with a given index (indices are distinct)
GpuAt(state, index) ==
    state.gpus[CHOOSE i \in 1..Len(state.gpus) : state.gpus[i].gpu_index = index]

RECURSIVE SumOverRun(_, _, _)
\* the sum of score_single_gpu over the accelerators r, ..., r+count-1
SumOverRun(state, r, count) ==
    IF count = 0 THEN 0
    ELSE score_single_gpu(GpuAt(state, r), state) + SumOverRun(state, r + 1, count - 1)

\* C3: for tp_size > 1 on an interconnect-enabled node whose free accelerators
\* contain a run of tp_size consecutive indices, select_gpu_set returns the
\* first such run in ascending index order, with 1.5 times the sum of the
\* individual scores.
C3_ContiguousRunPreferred ==
    (/\ pc = "selected"
     /\ tp_size > 1
     /\ gpu_state[sel_node].nvlink_enabled
     /\ RunStarts(gpu_state[sel_node], tp_size) # {}) =>
        LET state == gpu_state[sel_node]
            r == Least(RunStarts(state, tp_size))
        IN  /\ selection.gpu_set = [j \in 1..tp_size |-> r + j - 1]
            /\ 2 * selection.score = 3 * SumOverRun(state, r, tp_size)

\* a run exists and it is not what the first tp_size free accelerators, in
\* report order, would give
C3_Witness ==
    /\ pc = "selected"
    /\ tp_size > 1
    /\ gpu_state[sel_node].nvlink_enabled
    /\ RunStarts(gpu_state[sel_node], tp_size) # {}
    /\ selection.gpu_set #
         Indices(Prefix(FreeGpus(gpu_state[sel_node].gpus, 1), tp_size))
    /\ selection.gpu_set # <<>>

\* C4: in the end-to-end scenario (A and B with accelerators 0..3, all free,
\* same readings, interconnect on A only) a request with count 4 and group
\* size 4 yields A, indices 0,1,2,3 and 1.5 times the sum of A's individual
\* scores; B's score is the plain sum of its individual scores and is strictly
\* lower; in either iteration order.
C4_ScenarioPicksA ==
    (pc = "placed" /\ IsScenario(gpu_state) /\ gpu_req = 4 /\ tp_size = 4) =>
        LET a == CHOOSE k \in 1..2 : gpu_state[k].node_name = "A"
            b == CHOOSE k \in 1..2 : gpu_state[k].node_name = "B"
            scoreB == select_gpu_set(gpu_state[b], tp_size).score
        IN  /\ result.node = "A"
            /\ result.gpus = <<0, 1, 2, 3>>
            /\ 2 * result.score = 3 * SumOverRun(gpu_state[a], 0, 4)
            /\ scoreB = SumOverRun(gpu_state[b], 0, 4)
            /\ scoreB < result.score

\* the scenario with B iterated first and A chosen
C4_Witness ==
    /\ pc = "placed" /\ IsScenario(gpu_state) /\ gpu_req = 4 /\ tp_size = 4
    /\ gpu_state[1].node_name = "B"
    /\ result.node = "A"

\* C16: for tp_size > 1, a decision returned by find_best_placement selects
\* exactly tp_size accelerator indices, pairwise distinct, all of the chosen
\* node and all free (memory_free > 1000) in the cache the call read.
C16_GroupSelection ==
    (pc = "placed" /\ tp_size > 1 /\ result # None) =>
        /\ Len(result.gpus) = tp_size
        /\ Cardinality({result.gpus[i] : i \in 1..Len(result.gpus)}) = tp_size
        /\ \E k \in EntriesOf(gpu_state, result.node) :
              \A i \in 1..Len(result.gpus) :
                  result.gpus[i] \in FreeIndexSet(gpu_state[k])

\* a group chosen on a node that also has an accelerator that is not free
C16_Witness ==
    /\ pc = "placed" /\ tp_size > 1 /\ result # None
    /\ \E k \in EntriesOf(gpu_state, result.node) :
          gpu_state[k].free_gpus < gpu_state[k].total_gpus

RECURSIVE AscendingFirst(_, _)
\* the n smallest members of the set S of numbers, in ascending order
AscendingFirst(S, n) ==
    IF n = 0 \/ S = {} THEN <<>>
    ELSE <<Least(S)>> \o AscendingFirst(S \ {Least(S)}, n - 1)

RECURSIVE SumOverIndices(_, _, _)
\* the sum of score_single_gpu over the accelerators with the indices
\* indices[i..]
SumOverIndices(state, indices, i) ==
    IF i > Len(indices) THEN 0
    ELSE score_single_gpu(GpuAt(state, indices[i]), state)
         + SumOverIndices(state, indices, i + 1)

\* C23: for tp_size > 1 on a node without interconnect, select_gpu_set
\* returns the tp_size free accelerators with the smallest indices, in
\* ascending index order, whatever the order in which the inventory reports
\* the accelerators, and the score is the plain sum of their scores.
C23_NoInterconnectSmallestIndices ==
    (/\ pc = "selected"
     /\ tp_size > 1
     /\ ~gpu_state[sel_node].nvlink_enabled
     /\ Cardinality(FreeIndexSet(gpu_state[sel_node])) >= tp_size) =>
        LET state == gpu_state[sel_node]
            smallest == AscendingFirst(FreeIndexSet(state), tp_size)
        IN  /\ selection.gpu_set = smallest
            /\ selection.score = SumOverIndices(state, smallest, 1)

\* the positions, in the reported list, of the free accelerators
FreePositions(state) ==
    {i \in 1..Len(state.gpus) : state.gpus[i].memory_free > 1000}

\* the indices of the first n free accelerators in report order
FirstFreeIndices(state, n) ==
    LET positions == AscendingFirst(FreePositions(state), n)
    IN  [j \in 1..Len(positions) |-> state.gpus[positions[j]].gpu_index]

\* an interconnect-enabled node with at least count free accelerators and no
\* run of count consecutive free indices
NoRunNode(state, count) ==
    /\ state.nvlink_enabled
    /\ Cardinality(FreeIndexSet(state)) >= count
    /\ RunStarts(state, count) = {}

\* C24: for tp_size > 1 on an interconnect-enabled node with at least tp_size
\* free accelerators but no run of tp_size consecutive free indices,
\* select_gpu_set returns the first tp_size free accelerators with the plain
\* sum of their scores (no 1.5 factor), and the node remains a candidate: a
\* cache of that node alone yields a decision on it.
C24_FallbackWithoutBonus ==
    /\ (pc = "selected" /\ tp_size > 1 /\ NoRunNode(gpu_state[sel_node], tp_size)) =>
          LET state == gpu_state[sel_node]
              first == FirstFreeIndices(state, tp_size)
          IN  /\ selection.gpu_set = first
              /\ selection.score = SumOverIndices(state, first, 1)
    /\ (/\ pc = "placed" /\ tp_size > 1 /\ Len(gpu_state) = 1
        /\ NoRunNode(gpu_state[1], tp_size)) =>
          /\ result.node = gpu_state[1].node_name
          /\ result.gpus = FirstFreeIndices(gpu_state[1], tp_size)

\* the fallback taken on a node whose inventory is not in index order
C24_Witness ==
    /\ pc = "selected" /\ tp_size > 1
    /\ NoRunNode(gpu_state[sel_node], tp_size)
    /\ selection.gpu_set # <<>>
    /\ selection.gpu_set # AscendingFirst(FreeIndexSet(gpu_state[sel_node]), tp_size)

\* the cache entries find_multi_gpu_placement considers
Eligible == {k \in 1..Len(gpu_state) : gpu_state[k].free_gpus >= tp_size}

\* the score of the set select_gpu_set chooses on entry k
SetScore(k) == select_gpu_set(gpu_state[k], tp_size).score

\* the eligible entries whose set score is maximal
BestEntries == {k \in Eligible : \A j \in Eligible : SetScore(k) >= SetScore(j)}

\* C25: on the multi-accelerator path the returned node is one whose set
\* score (the contiguous bonus applied at most once) is maximal among the
\* nodes with free_gpus >= tp_size, the first of them in iteration order when
\* several attain the maximum; with no such node the result is None.
C25_MultiFirstArgmax ==
    (pc = "placed" /\ tp_size > 1) =>
        IF Eligible = {} THEN result = None
        ELSE LET best == Least(BestEntries)
             IN  /\ result.node = gpu_state[best].node_name
                 /\ result.score = SetScore(best)
                 /\ 2 * result.score <=
                        3 * SumOverIndices(gpu_state[best], result.gpus, 1)

\* two nodes attain the maximum and the first one is returned
C25_Witness ==
    /\ pc = "placed" /\ tp_size > 1
    /\ Cardinality(BestEntries) = 2
    /\ result.node = gpu_state[1].node_name
    /\ gpu_state[1].node_name # gpu_state[2].node_name

-----------------------------------------------------------------------------
(* Properties of score_single_gpu (checked under SpecScore) *)

\* the two scored accelerators agree on every input but the ones named
SameMemory(a, b) ==
    a.memory_free = b.memory_free /\ a.memory_total = b.memory_total
SameUtilization(a, b) == a.utilization = b.utilization
SameClass(a, b) == IsH100(a.product) = IsH100(b.product)
SameInterconnect == gpu_state[1].nvlink_enabled = gpu_state[2].nvlink_enabled

\* a's free fraction is at most b's; the readings are whole multiples of
\* 1024 MB, and the products are taken in those units
FreeFractionAtMost(a, b) ==
    (a.memory_free \div 1024) * (b.memory_total \div 1024)
        <= (b.memory_free \div 1024) * (a.memory_total \div 1024)

\* C26: score_single_gpu is monotone: all else equal, a larger free fraction
\* never gives a lower score and a higher utilization never gives a higher
\* score; the preferred class and the interconnect flag each add a fixed
\* bonus; and the free-fraction term has the largest range of the four terms
\* (its range, from nothing free to all free, is the greatest difference any
\* single input can make).
C26_ScoreMonotone ==
    pc = "scored" =>
        LET a == gpu_state[1].gpus[1]
            b == gpu_state[2].gpus[1]
            free_range == 8000
        IN  /\ (/\ SameUtilization(a, b) /\ SameClass(a, b) /\ SameInterconnect
                /\ FreeFractionAtMost(a, b)) =>
                  /\ scores[1] <= scores[2]
                  /\ scores[2] - scores[1] <= free_range
                  /\ (a.memory_free = 0 /\ b.memory_free = b.memory_total) =>
                        scores[2] - scores[1] = free_range
            /\ (/\ SameMemory(a, b) /\ SameClass(a, b) /\ SameInterconnect
                /\ a.utilization <= b.utilization) =>
                  /\ scores[1] >= scores[2]
                  /\ scores[1] - scores[2] <= free_range
            /\ (/\ SameMemory(a, b) /\ SameUtilization(a, b) /\ SameInterconnect
                /\ IsH100(a.product) /\ ~IsH100(b.product)) =>
                  /\ scores[1] - scores[2] = 4800
                  /\ scores[1] - scores[2] <= free_range
            /\ (/\ SameMemory(a, b) /\ SameUtilization(a, b) /\ SameClass(a, b)
                /\ gpu_state[1].nvlink_enabled /\ ~gpu_state[2].nvlink_enabled) =>
                  /\ scores[1] - scores[2] = 1600
                  /\ scores[1] - scores[2] <= free_range

\* two accelerators that differ in free memory only, one with nothing free
\* and one with everything free, were scored
C26_Witness ==
    /\ pc = "scored"
    /\ SameUtilization(gpu_state[1].gpus[1], gpu_state[2].gpus[1])
    /\ SameClass(gpu_state[1].gpus[1], gpu_state[2].gpus[1])
    /\ SameInterconnect
    /\ gpu_state[1].gpus[1].memory_free = 0
    /\ gpu_state[2].gpus[1].memory_free = gpu_state[2].gpus[1].memory_total
    /\ scores[2] - scores[1] = 8000

-----------------------------------------------------------------------------
(* Properties of the event loop (checked under Spec) *)

\* the event is one schedule_pod acts on
Schedulable(p) ==
    /\ p # NoPod
    /\ p.scheduler_name = SchedulerName
    /\ p.node_name = NoNode
    /\ ~p.deletion_timestamp

\* update_gpu_state, called for the current event, has ended (it returned or
\* an exception left it)
UpdateEnded == Schedulable(pod) /\ pc \in {"decide", "returned", "crashed"}

NoQueries == \A n \in NodeNames : calls.query[n] = 0

\* within the TTL: no node listing, no inventory query, cache and last_update
\* as they were
C5_WithinTTLNoRefresh ==
    (UpdateEnded /\ now - entry.last_update < cache_ttl) =>
        /\ calls.list_node = 0 /\ NoQueries
        /\ gpu_state = entry.gpu_state
        /\ last_update = entry.last_update

\* TTL expired: exactly one refresh, and last_update is now
C5_ExpiredOneRefresh ==
    (UpdateEnded /\ now - entry.last_update >= cache_ttl) =>
        /\ calls.list_node = 1
        /\ \A n \in NodeNames : calls.query[n] <= 1
        /\ last_update = now

\* C5: a scheduling attempt within the TTL of the last refresh issues no node
\* listing and no inventory query and leaves the cache and last_update
\* unchanged; an attempt at or after the TTL issues exactly one refresh (one
\* listing, at most one query per node) and sets last_update to now.
C5_CacheTTL == C5_WithinTTLNoRefresh /\ C5_ExpiredOneRefresh

\* C6: a refresh that is interrupted (a step fails after update_gpu_state has
\* started) leaves the previous snapshot entirely unchanged, never an empty
\* or partially filled mapping.
C6_InterruptedRefreshKeepsSnapshot ==
    (pc = "crashed" /\ error \in {"list_node", "get_socket_count"}) =>
        gpu_state = entry.gpu_state

NodesBoundTo(name) == {n \in NodeNames : <<name, n>> \in bindings}

\* C7: every workload is bound to at most one node, a binding once made never
\* changes, and no binding commit is issued for an event that carries an
\* assigned node.
C7_ExactlyOnceBinding ==
    /\ [](\A name \in PodNames : Cardinality(NodesBoundTo(name)) <= 1)
    /\ [](calls.bind > 0 => pod.node_name = NoNode)
    /\ [][bindings \subseteq bindings']_vars

\* a workload bound by this scheduler while the other one is bound as well,
\* after an event for it was delivered and handled
C7_Witness ==
    /\ pc = "returned"
    /\ calls.bind = 1
    /\ <<pod.name, result.node>> \in bindings
    /\ \A name \in PodNames : NodesBoundTo(name) # {}

\* the events the filter is to drop
Ignored(p) ==
    \/ p.scheduler_name # SchedulerName
    \/ p.node_name # NoNode
    \/ p.deletion_timestamp

\* C8: for an event of another scheduler, of a workload with an assigned
\* node or of a workload being deleted, schedule_pod returns at once: no node
\* listing, no inventory query, no placement, no binding commit, and the
\* cache and last_update are unchanged.
C8_FilteredEventIgnored ==
    (pod # NoPod /\ Ignored(pod)) =>
        /\ pc \in {"schedule", "returned"}
        /\ calls = NoCalls
        /\ result = None
        /\ gpu_state = entry.gpu_state
        /\ last_update = entry.last_update

\* a deleted workload's event was dropped although a refresh was due, and a
\* bound workload's event was dropped
C8_Witness ==
    /\ pc = "returned"
    /\ Ignored(pod)
    /\ pod.deletion_timestamp \/ pod.node_name # NoNode
    /\ now - last_update >= cache_ttl
    /\ pod.scheduler_name = SchedulerName

\* C9: when the requested count exceeds free_gpus on every cached node (or
\* the cache is empty), the placement returns None and no binding commit is
\* issued for the event.
C9_InfeasibleNoBinding ==
    (/\ calls.place = 1
     /\ \A k \in 1..Len(gpu_state) : gpu_state[k].free_gpus < gpu_req) =>
        /\ result = None
        /\ calls.bind = 0

\* C10: a rejected binding commit is not repeated for the event and does not
\* end the event loop.
C10_BindFailureRecoverable ==
    /\ calls.bind <= 1
    /\ ~(pc = "crashed" /\ error = "bind_pod")

\* C11: when the event stream terminates the scheduler re-subscribes and
\* keeps consuming events; run() never ends because the stream closed, so the
\* process never exits on a disconnect.
C11_StreamEndKeepsRunning == pc # "exited"

\* the accelerator request is absent or is not a number
Malformed(p) == p.gpu_request = Absent \/ ~Parses(p.gpu_request)

\* C12: for a workload whose accelerator request is absent or not a number
\* the requested count is taken as 0 and the event is skipped: no placement,
\* no binding commit, and no error of the request parsing leaves
\* schedule_pod.
C12_MalformedRequestSkipped ==
    (Schedulable(pod) /\ Malformed(pod)) =>
        /\ calls.place = 0
        /\ calls.bind = 0
        /\ ~(pc = "crashed" /\ error = "get_gpu_requirement")

\* the hints a workload carries: the environment key, a --flag=value token
EnvHint(p) == p.tp_env # Absent
ArgHint(p) == Len(p.tp_arg) = 2 /\ p.tp_arg[1] = TpFlag

\* the text the group size is to be read from
GroupSizeText(p) ==
    IF EnvHint(p) THEN p.tp_env
    ELSE IF ArgHint(p) THEN p.tp_arg[2]
    ELSE p.gpu_request

\* schedule_pod went past the refresh for a workload that requests at least
\* one accelerator, and has ended
PastExtraction ==
    /\ Schedulable(pod) /\ ~Malformed(pod) /\ ParseInt(pod.gpu_request) >= 1
    /\ pc \in {"returned", "crashed"}
    /\ error \notin {"list_node", "get_socket_count"}

\* C13: the group size is the value of the environment key when present,
\* otherwise the value of the --flag=value token of the launch arguments when
\* present (the environment key wins when both are), otherwise the requested
\* accelerator count.
C13_GroupSizeExtraction ==
    PastExtraction =>
        /\ calls.place = 1
        /\ tp_size = ParseInt(GroupSizeText(pod))

\* update_gpu_state ran a refresh for the current event and reached its end
RefreshCompleted ==
    /\ Schedulable(pod)
    /\ calls.list_node = 1
    /\ pc \in {"decide", "returned", "crashed"}
    /\ error \notin {"list_node", "get_socket_count"}

CacheNames == {gpu_state[k].node_name : k \in 1..Len(gpu_state)}

\* the listed nodes that carry the accelerator capacity key and whose
\* inventory query gave a non-empty answer
KeptNodes ==
    {k \in 1..Len(cluster) :
        cluster[k].capacity # Absent /\ cluster[k].inventory # <<>>}

\* C14: after a completed refresh the cache holds exactly the nodes of the
\* latest listing that advertise accelerator capacity and whose inventory
\* query gave a non-empty result, each once and with the inventory of this
\* refresh; a node whose query failed and a node that left the listing are
\* absent.
C14_RefreshResult ==
    RefreshCompleted =>
        /\ CacheNames = {cluster[k].name : k \in KeptNodes}
        /\ Cardinality(CacheNames) = Len(gpu_state)
        /\ \A i \in 1..Len(gpu_state) : \A k \in KeptNodes :
              gpu_state[i].node_name = cluster[k].name =>
                  gpu_state[i].gpus = cluster[k].inventory

\* a refresh completed after one of the two nodes of the previous snapshot
\* left the listing: the other node is cached, the one that left is not
C14_Witness ==
    /\ RefreshCompleted
    /\ Len(entry.gpu_state) = 2
    /\ Len(gpu_state) = 1
    /\ Len(cluster) = 1

\* C15: in every reachable state, every cache entry has free_gpus equal to
\* the number of its accelerators whose free memory is strictly greater than
\* 1000 MB and total_gpus equal to the number of its accelerators.
C15_EntryCounts ==
    \A k \in 1..Len(gpu_state) :
        LET state == gpu_state[k]
        IN  /\ state.free_gpus =
                Cardinality({i \in 1..Len(state.gpus) :
                                state.gpus[i].memory_free > 1000})
            /\ state.total_gpus = Len(state.gpus)

\* a cached node of which one accelerator is free and one is not
C15_Witness ==
    \E k \in 1..Len(gpu_state) :
        /\ gpu_state[k].free_gpus = 1
        /\ gpu_state[k].total_gpus = 2
        /\ \E i \in 1..2 : gpu_state[k].gpus[i].memory_free <= 1000

\* C18: events are handled one at a time in delivery order: per event at
\* most one placement call and at most one binding commit, the commit coming
\* after the placement; the next event is examined only when schedule_pod has
\* returned for the current one (its commit, if any, is then issued); a
\* placement that returned None ends the handling with no commit and no
\* second placement.
C18_OneEventAtATime ==
    /\ [](calls.place <= 1 /\ calls.bind <= calls.place)
    /\ []((calls.place = 1 /\ result = None) =>
              (pc = "returned" /\ calls.bind = 0))
    /\ [][pod' # pod => pc \in {"watch", "returned"}]_vars

\* an event ended with no feasible placement, after an earlier event's
\* binding
C18_Witness ==
    /\ pc = "returned"
    /\ calls.place = 1
    /\ result = None
    /\ bindings # {}

\* C19: handling an event changes gpu_state and last_update only through a
\* refresh (one that update_gpu_state starts because the TTL has expired);
\* placement and binding leave the cache as it is, so an event handled
\* without a refresh is decided on the cache the previous event left and an
\* equal request receives the same node and indices.
C19_OnlyRefreshChangesCache ==
    /\ [][gpu_state' # gpu_state =>
             (pc \in {"update", "refresh"}
              /\ now - entry.last_update >= cache_ttl)]_vars
    /\ [][last_update' # last_update =>
             (pc = "refresh" /\ now - entry.last_update >= cache_ttl)]_vars
    /\ []((calls.place = 1 /\ calls.list_node = 0) =>
              /\ gpu_state = entry.gpu_state
              /\ last_update = entry.last_update
              /\ result = find_best_placement(entry.gpu_state, gpu_req, tp_size))

\* an event bound within the TTL window of an earlier event's refresh to a
\* node that holds the other workload as well
C19_Witness ==
    /\ pc = "returned"
    /\ calls.list_node = 0
    /\ calls.bind = 1
    /\ last_update = StartTime
    /\ \A name \in PodNames : <<name, result.node>> \in bindings

\* C20: a failure of the node-listing call or of a per-node step of a
\* refresh does not end the event loop: the event ends without a binding or
\* goes on with the snapshot at hand, and later events are still handled.
C20_InventoryFailureRecoverable ==
    ~(pc = "crashed" /\ error \in {"list_node", "get_socket_count"})

\* the listed nodes whose advertised accelerator capacity is zero or that
\* advertise none
ZeroCapacityNodes ==
    {cluster[k].name :
        k \in {j \in 1..Len(cluster) : cluster[j].capacity \in {Absent, "0"}}}

\* C21: a node whose advertised accelerator capacity is zero, and a node that
\* advertises no accelerator capacity, is skipped by a refresh: no inventory
\* query is issued for it and it is absent from the snapshot.
C21_ZeroCapacitySkipped ==
    \A n \in ZeroCapacityNodes :
        /\ calls.query[n] = 0
        /\ n \notin CacheNames

\* the workload requests 0 accelerators (no request counts as "0")
RequestsZero(p) == p.gpu_request \in {Absent, "0"}

\* C22: an owned, unassigned, non-deleted workload that requests 0
\* accelerators is short-circuited whatever hint it carries: no placement
\* call and no binding commit.
C22_ZeroRequestShortCircuit ==
    (Schedulable(pod) /\ RequestsZero(pod)) =>
        /\ calls.place = 0
        /\ calls.bind = 0
        /\ result = None
        /\ ~(pc = "crashed" /\ error = "get_tensor_parallel_size")

\* a request of "0" with a group-size hint was dropped while the cache held
\* a node with free accelerators
C22_Witness ==
    /\ pc = "returned"
    /\ Schedulable(pod)
    /\ pod.gpu_request = "0"
    /\ pod.tp_env = "2"
    /\ \E k \in 1..Len(gpu_state) : gpu_state[k].free_gpus >= 2

-----------------------------------------------------------------------------
(* The LLMModel operator (examples/06-crd-operator/operator.py) *)

ModelNames == {"a", "b"}

get_deployment_name(llmmodel_name) == "llmmodel-" \o llmmodel_name

DeploymentNames == {get_deployment_name(n) : n \in ModelNames}

\* An optional key of a dictionary is a set with at most one member;
\* Get(field, default) is dict.get(key, default).
Get(field, default) == IF field = {} THEN default ELSE CHOOSE v \in field : TRUE

\* an LLMModel resource: metadata.name, and the keys of spec the model follows
LLMModel(name, replicas, modelName) ==
    [name |-> name, spec |-> [replicas |-> replicas, modelName |-> modelName]]

\* the resources of one name: an empty spec, and one naming both keys
LLMModelChoices(name) == {LLMModel(name, {}, {}), LLMModel(name, {2}, {"llama"})}

build_deployment_spec(llmmodel) ==
    [name |-> get_deployment_name(llmmodel.name),
     llmmodel |-> llmmodel.name,
     replicas |-> Get(llmmodel.spec.replicas, 1),
     MODEL_NAME |-> Get(llmmodel.spec.modelName, "")]

\* what the API server holds for a deployment name that has no deployment
NoDeployment == [name |-> ""]

Exists(deployment_name) == deployments[deployment_name] # NoDeployment

\* patch_namespaced_deployment: the keys of body replace those of the stored
\* object, the other keys stay
Patch(stored, body) ==
    [key \in DOMAIN stored \cup DOMAIN body |->
        IF key \in DOMAIN body THEN body[key] ELSE stored[key]]

\* The answers of the API server: the status that fits the stored state, or
\* an error (500).  A status other than 2xx raises ApiException in the client.
DeleteStatuses(deployment_name) ==
    (IF Exists(deployment_name) THEN {200} ELSE {404}) \cup {500}
ListStatuses == {200, 404, 500}

NoStatus == [phase |-> ""]
NoEvent == [type |-> "", object |-> LLMModel("", {}, {})]
EventTypes == {"ADDED", "MODIFIED", "DELETED"}

\* observer: for the event (or the start-up pass) being handled, whether the
\* deployment existed before, what was done, which calls failed
NoObs == [was_present |-> FALSE, created |-> FALSE, patched |-> FALSE,
          deleted |-> FALSE, status_updated |-> FALSE, failed |-> {}]

\* update_llmmodel_status: reads the deployment back and patches the status
\* of the LLMModel; any exception is logged and dropped (status_ok = FALSE)
update_llmmodel_status(name, deployment, status_ok, all_ready) ==
    IF status_ok
    THEN [statuses EXCEPT ![name] =
             [phase |-> "Running",
              replicas |-> deployment.replicas,
              readyReplicas |-> IF all_ready THEN deployment.replicas ELSE 0]]
    ELSE statuses

\* reconcile_llmmodel leaving a deployment it found as it is
reconcile_llmmodel_create_only(llmmodel, read, write, status_ok, all_ready) ==
    LET name == llmmodel.name
        deployment_name == get_deployment_name(name)
        deployment_spec == build_deployment_spec(llmmodel)
        raised == read = 500 \/ write = 500
        written == IF read = 200 THEN deployments[deployment_name]
                   ELSE deployment_spec
    IN  [raised |-> raised,
         deployments |-> IF raised THEN deployments
                         ELSE [deployments EXCEPT ![deployment_name] = written],
         statuses |-> IF raised THEN statuses
                      ELSE update_llmmodel_status(name, written, status_ok, all_ready),
         obs |-> [was_present |-> Exists(deployment_name),
                  created |-> ~raised /\ read = 404,
                  patched |-> ~raised /\ read = 200,
                  deleted |-> FALSE,
                  status_updated |-> ~raised /\ status_ok,
                  failed |-> IF read = 500 THEN {"read"}
                             ELSE IF write = 500
                             THEN {IF read = 200 THEN "patch" ELSE "create"}
                             ELSE IF ~status_ok THEN {"status"} ELSE {}]]

\* reconcile_llmmodel, given the answer to read_namespaced_deployment (read),
\* the answer to the patch or create that follows (write) and the course of
\* the status update.  The deployment is patched when the read found it and
\* created on a 404; any other error of the read or the patch is raised
\* again, and an error of the create leaves the except clause it is called in.
reconcile_llmmodel(llmmodel, read, write, status_ok, all_ready) ==
    LET name == llmmodel.name
        deployment_name == get_deployment_name(name)
        deployment_spec == build_deployment_spec(llmmodel)
        raised == read = 500 \/ write = 500
        written == IF read = 200
                   THEN Patch(deployments[deployment_name], deployment_spec)
                   ELSE deployment_spec
    IN  [raised |-> raised,
         deployments |-> IF raised THEN deployments
                         ELSE [deployments EXCEPT ![deployment_name] = written],
         statuses |-> IF raised THEN statuses
                      ELSE update_llmmodel_status(name, written, status_ok, all_ready),
         obs |-> [was_present |-> Exists(deployment_name),
                  created |-> ~raised /\ read = 404,
                  patched |-> ~raised /\ read = 200,
                  deleted |-> FALSE,
                  status_updated |-> ~raised /\ status_ok,
                  failed |-> IF read = 500 THEN {"read"}
                             ELSE IF write = 500
                             THEN {IF read = 200 THEN "patch" ELSE "create"}
                             ELSE IF ~status_ok THEN {"status"} ELSE {}]]

\* the courses a reconcile_llmmodel call can take: the read fails; the read
\* answers and the write fails; both answer and the status update fails or
\* goes through with none or all replicas ready
ReconcileCourses(deployment_name) ==
    LET found == IF Exists(deployment_name) THEN 200 ELSE 404
        Course(read, write, status_ok, all_ready) ==
            [read |-> read, write |-> write, status_ok |-> status_ok,
             all_ready |-> all_ready]
    IN  {Course(500, 500, FALSE, FALSE), Course(found, 500, FALSE, FALSE),
         Course(found, 200, FALSE, FALSE), Course(found, 200, TRUE, FALSE),
         Course(found, 200, TRUE, TRUE)}

\* delete_deployment_for_llmmodel raising the errors other than 404 again
delete_deployment_for_llmmodel_raising(llmmodel, answer) ==
    LET deployment_name == get_deployment_name(llmmodel.name)
    IN  [raised |-> answer = 500,
         deployments |-> IF answer = 200
                         THEN [deployments EXCEPT ![deployment_name] = NoDeployment]
                         ELSE deployments,
         statuses |-> statuses,
         obs |-> [was_present |-> Exists(deployment_name),
                  created |-> FALSE, patched |-> FALSE,
                  deleted |-> answer = 200,
                  status_updated |-> FALSE,
                  failed |-> IF answer = 200 THEN {} ELSE {"delete"}]]

\* delete_deployment_for_llmmodel, given the answer to the delete: a 404 and
\* any other ApiException are logged and dropped
delete_deployment_for_llmmodel(llmmodel, answer) ==
    LET deployment_name == get_deployment_name(llmmodel.name)
    IN  [raised |-> FALSE,
         deployments |-> IF answer = 200
                         THEN [deployments EXCEPT ![deployment_name] = NoDeployment]
                         ELSE deployments,
         statuses |-> statuses,
         obs |-> [was_present |-> Exists(deployment_name),
                  created |-> FALSE, patched |-> FALSE,
                  deleted |-> answer = 200,
                  status_updated |-> FALSE,
                  failed |-> IF answer = 200 THEN {} ELSE {"delete"}]]

\* the resources that exist when the operator starts: at most one per name
StartResources ==
    {<<>>}
    \cup {<<m>> : m \in UNION {LLMModelChoices(n) : n \in ModelNames}}
    \cup {<<m1, m2>> : m1 \in LLMModelChoices("a"), m2 \in LLMModelChoices("b")}

\* the deployments a previous run of the operator can have left
StartDeployments ==
    {f \in [DeploymentNames ->
                {NoDeployment} \cup
                {build_deployment_spec(m) :
                    m \in UNION {LLMModelChoices(n) : n \in ModelNames}}] :
        \A d \in DeploymentNames : f[d] = NoDeployment \/ f[d].name = d}

InitOperator ==
    /\ llmmodels \in StartResources
    /\ deployments \in StartDeployments
    /\ statuses = [n \in ModelNames |-> NoStatus]
    /\ op_pc = "start"
    /\ items = <<>>
    /\ event = NoEvent
    /\ op_obs = NoObs
    /\ SchedulerNotRunning
    /\ AppNotRunning
    /\ ClientNotRunning

\* do_initial_reconciliation: the listing; a 404 and any other ApiException
\* end the start-up pass
ListLLMModels ==
    /\ op_pc = "start"
    /\ \E answer \in ListStatuses :
        IF answer = 200
        THEN /\ items' = llmmodels
             /\ op_pc' = "initial"
             /\ UNCHANGED op_obs
        ELSE /\ op_pc' = "watch"
             /\ op_obs' = [op_obs EXCEPT !.failed = @ \cup {"list"}]
             /\ UNCHANGED items
    /\ UNCHANGED <<llmmodels, deployments, statuses, event, schedulerVars, appVars, clientVars>>

\* do_initial_reconciliation: one iteration of the for loop; an ApiException
\* raised by reconcile_llmmodel is caught by the except clause of the pass
InitialReconcile ==
    /\ op_pc = "initial"
    /\ items # <<>>
    /\ \E c \in ReconcileCourses(get_deployment_name(Head(items).name)) :
        LET r == reconcile_llmmodel(Head(items), c.read, c.write, c.status_ok,
                                    c.all_ready)
        IN  /\ deployments' = r.deployments
            /\ statuses' = r.statuses
            /\ op_obs' = [r.obs EXCEPT !.failed = @ \cup op_obs.failed]
            /\ IF r.raised
               THEN op_pc' = "watch" /\ items' = <<>>
               ELSE op_pc' = "initial" /\ items' = Tail(items)
    /\ UNCHANGED <<llmmodels, event, schedulerVars, appVars, clientVars>>

\* the start-up pass is through; main goes on to watch_and_reconcile
InitialDone ==
    /\ op_pc = "initial"
    /\ items = <<>>
    /\ op_pc' = "watch"
    /\ UNCHANGED <<llmmodels, deployments, statuses, items, event, op_obs,
                   schedulerVars, appVars, clientVars>>

\* watch_and_reconcile: one iteration of the for loop over the stream
WatchEvent ==
    /\ op_pc = "watch"
    /\ \E type \in EventTypes, name \in ModelNames :
       \E llmmodel \in LLMModelChoices(name) :
       \E c \in IF type = "DELETED"
                THEN {[read |-> a, write |-> 200, status_ok |-> FALSE,
                       all_ready |-> FALSE] :
                         a \in DeleteStatuses(get_deployment_name(name))}
                ELSE ReconcileCourses(get_deployment_name(name)) :
        LET r == IF type \in {"ADDED", "MODIFIED"}
                 THEN reconcile_llmmodel(llmmodel, c.read, c.write,
                                         c.status_ok, c.all_ready)
                 ELSE delete_deployment_for_llmmodel(llmmodel, c.read)
        IN  /\ event' = [type |-> type, object |-> llmmodel]
            /\ deployments' = r.deployments
            /\ statuses' = r.statuses
            /\ op_obs' = r.obs
            /\ op_pc' = IF r.raised THEN "crashed" ELSE "watch"
    /\ UNCHANGED <<llmmodels, items, schedulerVars, appVars, clientVars>>

\* the stream is exhausted: watch_and_reconcile and main return
OperatorStreamEnds ==
    /\ op_pc = "watch"
    /\ op_pc' = "exited"
    /\ UNCHANGED <<llmmodels, deployments, statuses, items, event, op_obs,
                   schedulerVars, appVars, clientVars>>

NextOperator ==
    \/ ListLLMModels
    \/ InitialReconcile
    \/ InitialDone
    \/ WatchEvent
    \/ OperatorStreamEnds

SpecOperator == InitOperator /\ [][NextOperator]_vars

-----------------------------------------------------------------------------
(* Properties of the operator (checked under SpecOperator) *)

\* the deployment of the LLMModel of the current event
EventDeployment == deployments[get_deployment_name(event.object.name)]

\* a watch event has been handled and every API call made for it succeeded
HandledCleanly ==
    /\ event # NoEvent
    /\ op_pc # "crashed"
    /\ op_obs.failed = {}

\* C27: with the API calls succeeding, after an ADDED or MODIFIED event of
\* the LLMModel n is handled the deployment llmmodel-n exists with the spec
\* built from the event's resource (created when it was absent, patched
\* when it was present); after a DELETED event it does not exist; and every
\* resource that exists at start-up is reconciled before the first watch
\* event is handled.
C27_Reconciliation ==
    /\ (HandledCleanly /\ event.type \in {"ADDED", "MODIFIED"}) =>
          /\ EventDeployment = build_deployment_spec(event.object)
          /\ EventDeployment.name = get_deployment_name(event.object.name)
          /\ op_obs.was_present => (op_obs.patched /\ ~op_obs.created)
          /\ ~op_obs.was_present => (op_obs.created /\ ~op_obs.patched)
    /\ (HandledCleanly /\ event.type = "DELETED") =>
          EventDeployment = NoDeployment
    /\ (op_pc = "watch" /\ event = NoEvent /\ op_obs.failed = {}) =>
          \A k \in 1..Len(llmmodels) :
              deployments[get_deployment_name(llmmodels[k].name)]
                  = build_deployment_spec(llmmodels[k])
    /\ event # NoEvent => (items = <<>> /\ op_pc \notin {"start", "initial"})

\* a MODIFIED event for a deployment that existed was handled, and the
\* deployment carries the replicas and the model name of the event
C27_Witness ==
    /\ HandledCleanly
    /\ event.type = "MODIFIED"
    /\ op_obs.was_present
    /\ EventDeployment.replicas = 2
    /\ EventDeployment.MODEL_NAME = "llama"

\* C28: a 404 and any other error of the delete are absorbed and so is a
\* failure of the status update, and the watch loop goes on; an error other
\* than 404 of the read, the patch or the create in reconcile_llmmodel is
\* raised, skips the status update and ends the watch loop.
C28_ErrorOutcomes ==
    /\ (event # NoEvent /\ op_obs.failed \cap {"read", "patch", "create"} # {}) =>
          /\ op_pc = "crashed"
          /\ ~op_obs.status_updated
          /\ "status" \notin op_obs.failed
    /\ (event # NoEvent /\ op_obs.failed \subseteq {"delete", "status"}) =>
          op_pc # "crashed"
    /\ op_pc = "crashed" => event.type \in {"ADDED", "MODIFIED"}

\* a delete answered with an error was absorbed: the deployment is still
\* there and the loop waits for the next event
C28_Witness ==
    /\ op_pc = "watch"
    /\ event.type = "DELETED"
    /\ op_obs.failed = {"delete"}
    /\ EventDeployment # NoDeployment

-----------------------------------------------------------------------------
(* The simulated inference server (16-model-warmup/docker/app.py) *)

\* The handlers are coroutines without an await: the event loop runs one
\* request at a time, each to its response.  The threads started for
\* load_model run beside the event loop and may be scheduled between any two
\* reads or writes of model_status that a handler or another thread makes.

\* requests that arrive in one run
MaxRequests == 2
\* last reading of the clock
MaxAppTime == 1

\* number of progress steps of load_model
steps == 10

\* Optional[datetime]: None is the empty set, a time t the set {t}
NoTime == {}
At(t) == {t}

\* ModelStatus() as constructed at import, with start_time set right after
ModelStatus ==
    [loading |-> FALSE, loaded |-> FALSE,
     load_start_time |-> NoTime, load_complete_time |-> NoTime,
     warmup_requests |-> 0, total_requests |-> 0,
     first_request_time |-> NoTime, start_time |-> At(0)]

Endpoints == {"/health", "/ready", "/metrics", "/v1/completions"}
Prompts == {"warmup", "TEST", "hello"}

\* str.lower on the prompts of the model
Lower(prompt) == IF prompt = "TEST" THEN "test" ELSE prompt
is_warmup(prompt) == Lower(prompt) \in {"warmup", "warm-up", "test"}

\* no request has arrived yet / no response has been sent for the request
NoRequest == [seq |-> 0, endpoint |-> "", prompt |-> "", pc |-> "done"]
NoResponse == [endpoint |-> "", code |-> 0, body |-> <<>>]

\* a thread created for load_model, before its first instruction
NewLoader == [pc |-> "guard_loaded", i |-> 0]

InitApp ==
    /\ model_status = ModelStatus
    /\ loaders = <<>>
    /\ request = NoRequest
    /\ response = NoResponse
    /\ app_now = 0
    /\ SchedulerNotRunning
    /\ OperatorNotRunning
    /\ ClientNotRunning

\* the response ends the handler
Respond(code, body) ==
    /\ response' = [endpoint |-> request.endpoint, code |-> code, body |-> body]
    /\ request' = [request EXCEPT !.pc = "done"]

\* the event loop takes the next request
Arrive ==
    /\ request.pc = "done"
    /\ request.seq < MaxRequests
    /\ \E endpoint \in Endpoints :
         \E prompt \in (IF endpoint = "/v1/completions" THEN Prompts ELSE {""}) :
            request' = [seq |-> request.seq + 1, endpoint |-> endpoint,
                        prompt |-> prompt, pc |-> "enter"]
    /\ response' = NoResponse
    /\ UNCHANGED <<model_status, loaders, app_now, schedulerVars, operatorVars, clientVars>>

\* ready_check always answering 200
ready_check_always_ready(loaded) == 200
\* ready_check: the status code for the value read from model_status.loaded
ready_check(loaded) == IF loaded THEN 200 ELSE 503

ReadyCheck ==
    /\ request.pc = "enter"
    /\ request.endpoint = "/ready"
    /\ LET code == ready_check(model_status.loaded)
       IN  Respond(code, [ready |-> code = 200])
    /\ UNCHANGED <<model_status, loaders, app_now, schedulerVars, operatorVars, clientVars>>

\* health_check up to its test of model_status.loaded
HealthCheck ==
    /\ request.pc = "enter"
    /\ request.endpoint = "/health"
    /\ IF model_status.loaded
       THEN Respond(200, [status |-> "ok", model_loaded |-> TRUE,
                          loading_progress |-> 0])
       ELSE /\ request' = [request EXCEPT !.pc = "not_loaded"]
            /\ UNCHANGED response
    /\ UNCHANGED <<model_status, loaders, app_now, schedulerVars, operatorVars, clientVars>>

\* create_completion up to its test of model_status.loaded
CreateCompletion ==
    /\ request.pc = "enter"
    /\ request.endpoint = "/v1/completions"
    /\ request' = [request EXCEPT !.pc = IF model_status.loaded
                                         THEN "first_request"
                                         ELSE "not_loaded"]
    /\ UNCHANGED <<response, model_status, loaders, app_now,
                   schedulerVars, operatorVars, clientVars>>

\* the test of model_status.loading in health_check and create_completion:
\* a thread is started when no load is seen in progress; create_completion
\* then raises 503, health_check goes on to build its body
StartLoading ==
    /\ request.pc = "not_loaded"
    /\ loaders' = IF ~model_status.loading
                  THEN Append(loaders, NewLoader)
                  ELSE loaders
    /\ IF request.endpoint = "/v1/completions"
       THEN Respond(503, [detail |-> "Model loading"])
       ELSE /\ request' = [request EXCEPT !.pc = "respond_loading"]
            /\ UNCHANGED response
    /\ UNCHANGED <<model_status, app_now, schedulerVars, operatorVars, clientVars>>

\* the return of health_check for a model that was not loaded: a plain
\* return value, which the framework sends with status 200
HealthLoading ==
    /\ request.pc = "respond_loading"
    /\ Respond(200, [status |-> "loading", model_loaded |-> FALSE,
                     loading_progress |-> IF ~model_status.loading
                                          THEN 0 ELSE 50])
    /\ UNCHANGED <<model_status, loaders, app_now, schedulerVars, operatorVars, clientVars>>

Metrics ==
    /\ request.pc = "enter"
    /\ request.endpoint = "/metrics"
    /\ Respond(200, [model_loaded |-> model_status.loaded,
                     warmup_requests |-> model_status.warmup_requests,
                     total_requests |-> model_status.total_requests])
    /\ UNCHANGED <<model_status, loaders, app_now, schedulerVars, operatorVars, clientVars>>

\* generate_text: the first request time
GenFirstRequest ==
    /\ request.pc = "first_request"
    /\ model_status' = IF model_status.first_request_time = NoTime
                       THEN [model_status EXCEPT !.first_request_time = At(app_now)]
                       ELSE model_status
    /\ request' = [request EXCEPT !.pc = "count_warmup"]
    /\ UNCHANGED <<response, loaders, app_now, schedulerVars, operatorVars, clientVars>>

\* generate_text: the warm-up counter
GenCountWarmup ==
    /\ request.pc = "count_warmup"
    /\ model_status' = IF is_warmup(request.prompt)
                       THEN [model_status EXCEPT !.warmup_requests = @ + 1]
                       ELSE model_status
    /\ request' = [request EXCEPT !.pc = "count_total"]
    /\ UNCHANGED <<response, loaders, app_now, schedulerVars, operatorVars, clientVars>>

\* generate_text: the request counter
GenCountTotal ==
    /\ request.pc = "count_total"
    /\ model_status' = [model_status EXCEPT !.total_requests = @ + 1]
    /\ request' = [request EXCEPT !.pc = "sleep"]
    /\ UNCHANGED <<response, loaders, app_now, schedulerVars, operatorVars, clientVars>>

\* generate_text returns after its sleep and create_completion answers
GenRespond ==
    /\ request.pc = "sleep"
    /\ Respond(200, [text |-> "Generated response"])
    /\ UNCHANGED <<model_status, loaders, app_now, schedulerVars, operatorVars, clientVars>>

\* one instruction of the thread k
LoaderTo(k, to) == loaders' = [loaders EXCEPT ![k].pc = to]

\* load_model: the guard reads loaded, then loading
LoaderGuardLoaded ==
    /\ \E k \in 1..Len(loaders) :
         /\ loaders[k].pc = "guard_loaded"
         /\ LoaderTo(k, IF model_status.loaded THEN "returned" ELSE "guard_loading")
    /\ UNCHANGED <<model_status, request, response, app_now,
                   schedulerVars, operatorVars, clientVars>>

LoaderGuardLoading ==
    /\ \E k \in 1..Len(loaders) :
         /\ loaders[k].pc = "guard_loading"
         /\ LoaderTo(k, IF model_status.loading THEN "returned" ELSE "set_loading")
    /\ UNCHANGED <<model_status, request, response, app_now,
                   schedulerVars, operatorVars, clientVars>>

LoaderSetLoading ==
    /\ \E k \in 1..Len(loaders) :
         /\ loaders[k].pc = "set_loading"
         /\ LoaderTo(k, "set_start")
    /\ model_status' = [model_status EXCEPT !.loading = TRUE]
    /\ UNCHANGED <<request, response, app_now, schedulerVars, operatorVars, clientVars>>

LoaderSetStart ==
    /\ \E k \in 1..Len(loaders) :
         /\ loaders[k].pc = "set_start"
         /\ LoaderTo(k, "steps")
    /\ model_status' = [model_status EXCEPT !.load_start_time = At(app_now)]
    /\ UNCHANGED <<request, response, app_now, schedulerVars, operatorVars, clientVars>>

\* one pass of the progress loop, or its end
LoaderStep ==
    /\ \E k \in 1..Len(loaders) :
         /\ loaders[k].pc = "steps"
         /\ loaders' = IF loaders[k].i < steps
                       THEN [loaders EXCEPT ![k].i = @ + 1]
                       ELSE [loaders EXCEPT ![k].pc = "clear_loading"]
    /\ UNCHANGED <<model_status, request, response, app_now,
                   schedulerVars, operatorVars, clientVars>>

LoaderClearLoading ==
    /\ \E k \in 1..Len(loaders) :
         /\ loaders[k].pc = "clear_loading"
         /\ LoaderTo(k, "set_loaded")
    /\ model_status' = [model_status EXCEPT !.loading = FALSE]
    /\ UNCHANGED <<request, response, app_now, schedulerVars, operatorVars, clientVars>>

LoaderSetLoaded ==
    /\ \E k \in 1..Len(loaders) :
         /\ loaders[k].pc = "set_loaded"
         /\ LoaderTo(k, "set_complete")
    /\ model_status' = [model_status EXCEPT !.loaded = TRUE]
    /\ UNCHANGED <<request, response, app_now, schedulerVars, operatorVars, clientVars>>

LoaderSetComplete ==
    /\ \E k \in 1..Len(loaders) :
         /\ loaders[k].pc = "set_complete"
         /\ LoaderTo(k, "done")
    /\ model_status' = [model_status EXCEPT !.load_complete_time = At(app_now)]
    /\ UNCHANGED <<request, response, app_now, schedulerVars, operatorVars, clientVars>>

\* the clock of datetime.now()
AppTick ==
    /\ app_now < MaxAppTime
    /\ app_now' = app_now + 1
    /\ UNCHANGED <<model_status, loaders, request, response,
                   schedulerVars, operatorVars, clientVars>>

NextApp ==
    \/ Arrive
    \/ ReadyCheck
    \/ HealthCheck
    \/ CreateCompletion
    \/ StartLoading
    \/ HealthLoading
    \/ Metrics
    \/ GenFirstRequest
    \/ GenCountWarmup
    \/ GenCountTotal
    \/ GenRespond
    \/ LoaderGuardLoaded
    \/ LoaderGuardLoading
    \/ LoaderSetLoading
    \/ LoaderSetStart
    \/ LoaderStep
    \/ LoaderClearLoading
    \/ LoaderSetLoaded
    \/ LoaderSetComplete
    \/ AppTick

SpecApp == InitApp /\ [][NextApp]_vars

\* a step of some load_model thread
LoaderNext ==
    \/ LoaderGuardLoaded
    \/ LoaderGuardLoading
    \/ LoaderSetLoading
    \/ LoaderSetStart
    \/ LoaderStep
    \/ LoaderClearLoading
    \/ LoaderSetLoaded
    \/ LoaderSetComplete

\* The operating system schedules a started thread: the threads that have
\* not finished are not held back forever.  Nothing obliges a client to send
\* a request, so the arrivals carry no fairness.
FairSpecApp == SpecApp /\ WF_vars(LoaderNext)

-----------------------------------------------------------------------------
(* Properties of the simulated server (checked under SpecApp) *)

\* the request counters of model_status
Counters ==
    <<model_status.total_requests, model_status.warmup_requests,
      model_status.first_request_time>>

\* the handler of the current request takes a step
HandlerStep(endpoint, at) ==
    /\ request.endpoint = endpoint
    /\ request.pc = at
    /\ request' # request

\* C29: /ready answers 503 in every state where the model is not loaded and
\* 200 in every state where it is loaded; /v1/completions answers 503 while
\* the model is not loaded, starts a load if it sees none in progress, and
\* then changes none of total_requests, warmup_requests, first_request_time.
C29_Readiness ==
    [][/\ HandlerStep("/ready", "enter") =>
            /\ request'.pc = "done"
            /\ response'.endpoint = "/ready"
            /\ model_status.loaded => response'.code = 200
            /\ ~model_status.loaded => response'.code = 503
       /\ (HandlerStep("/v1/completions", "enter") /\ ~model_status.loaded) =>
            /\ request'.pc = "not_loaded"
            /\ loaders' = loaders
       /\ HandlerStep("/v1/completions", "not_loaded") =>
            /\ request'.pc = "done"
            /\ response'.code = 503
            /\ model_status.loading => loaders' = loaders
            /\ ~model_status.loading =>
                  /\ Len(loaders') = Len(loaders) + 1
                  /\ loaders'[Len(loaders')].pc = "guard_loaded"
       /\ (request.endpoint = "/v1/completions"
             /\ request.pc \in {"enter", "not_loaded"}) =>
            Counters' = Counters
       /\ (response'.endpoint = "/v1/completions" /\ response'.code = 200) =>
            model_status.loaded
      ]_vars

\* the first request was a completion: it was answered 503, a load was
\* started for it and nothing was counted
C29_Witness ==
    /\ request.seq = 1
    /\ response.endpoint = "/v1/completions"
    /\ response.code = 503
    /\ Len(loaders) = 1
    /\ Counters = <<0, 0, NoTime>>

\* C30: /health returns 200 OK only when the model is actually loaded.
C30_HealthOkOnlyWhenLoaded ==
    (response.endpoint = "/health" /\ response.code = 200) =>
        /\ model_status.loaded
        /\ response.body.model_loaded

\* the executions of load_model that got past the guard
PastGuard ==
    {k \in 1..Len(loaders) :
        loaders[k].pc \notin {"guard_loaded", "guard_loading", "returned"}}

\* C31: for any interleaving of /health and /v1/completions requests and the
\* loader threads they start, at most one execution of load_model gets past
\* its loaded-or-loading guard (so load_start_time is set once and the
\* loading steps run once).
C31_LoadAtMostOnce == Cardinality(PastGuard) <= 1

\* C32 (parts): the first /health request that finds the model neither
\* loaded nor loading starts a load_model thread
C32a_HealthStartsLoad ==
    [][(HandlerStep("/health", "not_loaded") /\ ~model_status.loading) =>
            Len(loaders') = Len(loaders) + 1]_vars
\* once a load_model thread exists the model eventually becomes loaded
C32b_EventuallyLoaded == (Len(loaders) > 0) ~> model_status.loaded
\* loading and loaded are never both true
C32c_NeverBoth == [](~(model_status.loading /\ model_status.loaded))
\* loaded stays true and loading stays false from then on
C32d_LoadedIsFinal ==
    [][model_status.loaded =>
            (model_status'.loaded /\ ~model_status'.loading)]_vars
\* the counters, whenever generate_text is not between its two increments
C32e_CountersOrdered ==
    [](request.pc # "count_total" =>
            model_status.warmup_requests <= model_status.total_requests)

\* C32: the model starts not loaded and not loading; the first /health
\* request in that state starts the load; under fair scheduling of the
\* loader thread the model eventually becomes loaded; loading and loaded are
\* never both true; once loaded is true it stays true and loading stays
\* false forever; warmup_requests never exceeds total_requests.
C32_LoadingStateMachine ==
    /\ ~model_status.loading /\ ~model_status.loaded
    /\ C32a_HealthStartsLoad
    /\ C32b_EventuallyLoaded
    /\ C32c_NeverBoth
    /\ C32d_LoadedIsFinal
    /\ C32e_CountersOrdered

\* the same parts when at most one execution of load_model got past its guard
C32_WithOneLoad ==
    /\ [](Cardinality(PastGuard) <= 1 =>
            ~(model_status.loading /\ model_status.loaded))
    /\ [][(Cardinality(PastGuard') <= 1 /\ model_status.loaded) =>
            (model_status'.loaded /\ ~model_status'.loading)]_vars

-----------------------------------------------------------------------------
(* The warm-up client (16-model-warmup/warmup-client.py) *)

\* The server is the client's environment here: a health check or a warm-up
\* request may be answered in any way and take any time within its timeout.

\* largest --timeout given to the client
MaxTimeout == 7
\* longest time one HTTP call takes, retries included
MaxCallTime == 2

\* the argument of time.sleep in wait_for_model_loaded
poll_interval == 3

\* what response.json() gives: a dict with or without the key model_loaded
\* (a missing key is the empty set), or a value that is not a dict
HealthDict(model_loaded) == [dict |-> TRUE, model_loaded |-> model_loaded]
EmptyDict == HealthDict({})
NotADict == [dict |-> FALSE, model_loaded |-> {}]

\* the outcomes of session.get(.../health) followed by raise_for_status():
\* a RequestException (no connection, timeout, an error status), or a body
HealthAnswers ==
    {[raises |-> TRUE, json |-> EmptyDict]}
        \cup {[raises |-> FALSE, json |-> j] :
                 j \in {HealthDict({TRUE}), HealthDict({FALSE}), EmptyDict, NotADict}}

\* check_health: the body, or {} after a RequestException
check_health(answer) == IF answer.raises THEN EmptyDict ELSE answer.json

\* health.get("model_loaded") raises on a value that has no get
GetRaises(health) == ~health.dict
\* the truth value of health.get("model_loaded"); None when the key is missing
ModelLoaded(health) == health.dict /\ health.model_loaded = {TRUE}

\* a WarmupClient whose warmup(wait_for_load) has been called
NewClient(timeout, wait_for_load) ==
    [pc |-> "warmup", timeout |-> timeout, wait_for_load |-> wait_for_load,
     now |-> 0, start_time |-> 0, health |-> EmptyDict, polls |-> 0,
     seen_loaded |-> FALSE, posts |-> 0, post_ok |-> FALSE,
     waited |-> "none", result |-> "none"]

InitClient ==
    /\ client \in {NewClient(timeout, wait_for_load) :
                      timeout \in 0..MaxTimeout, wait_for_load \in BOOLEAN}
    /\ SchedulerNotRunning
    /\ OperatorNotRunning
    /\ AppNotRunning

\* warmup starting the wait at once, whatever wait_for_load says
WarmupStart_no_wait ==
    /\ client.pc = "warmup"
    /\ client' = [client EXCEPT !.pc = "send"]
    /\ UNCHANGED <<schedulerVars, operatorVars, appVars>>
\* warmup up to its call of wait_for_model_loaded or of send_warmup_request
WarmupStart ==
    /\ client.pc = "warmup"
    /\ client' = IF client.wait_for_load
                 THEN [client EXCEPT !.pc = "wait_loop", !.start_time = client.now]
                 ELSE [client EXCEPT !.pc = "send"]
    /\ UNCHANGED <<schedulerVars, operatorVars, appVars>>

\* wait_for_model_loaded: the test of the while loop; when it fails the
\* function returns False and so does warmup
WaitLoopTest ==
    /\ client.pc = "wait_loop"
    /\ client' = IF client.now - client.start_time < client.timeout
                 THEN [client EXCEPT !.pc = "check_health"]
                 ELSE [client EXCEPT !.pc = "returned", !.waited = "False",
                                     !.result = "False"]
    /\ UNCHANGED <<schedulerVars, operatorVars, appVars>>

\* wait_for_model_loaded: the call of check_health
CheckHealth ==
    /\ client.pc = "check_health"
    /\ \E answer \in HealthAnswers, took \in 0..MaxCallTime :
          client' = [client EXCEPT !.pc = "inspect",
                                   !.health = check_health(answer),
                                   !.polls = @ + 1,
                                   !.now = @ + took]
    /\ UNCHANGED <<schedulerVars, operatorVars, appVars>>

\* wait_for_model_loaded: the test of the health response; an exception of
\* the test is caught and the loop goes on
Inspect ==
    /\ client.pc = "inspect"
    /\ client' = IF ~GetRaises(client.health) /\ ModelLoaded(client.health)
                 THEN [client EXCEPT !.pc = "send", !.waited = "True",
                                     !.seen_loaded = TRUE]
                 ELSE [client EXCEPT !.pc = "sleep"]
    /\ UNCHANGED <<schedulerVars, operatorVars, appVars>>

\* wait_for_model_loaded: time.sleep(3)
Sleep ==
    /\ client.pc = "sleep"
    /\ client' = [client EXCEPT !.pc = "wait_loop", !.now = @ + poll_interval]
    /\ UNCHANGED <<schedulerVars, operatorVars, appVars>>

\* send_warmup_request and the return of warmup
SendWarmupRequest ==
    /\ client.pc = "send"
    /\ \E ok \in BOOLEAN, took \in 0..MaxCallTime :
          client' = [client EXCEPT !.pc = "returned",
                                   !.posts = @ + 1,
                                   !.post_ok = ok,
                                   !.now = @ + took,
                                   !.result = IF ok THEN "True" ELSE "False"]
    /\ UNCHANGED <<schedulerVars, operatorVars, appVars>>

NextClient ==
    \/ WarmupStart
    \/ WaitLoopTest
    \/ CheckHealth
    \/ Inspect
    \/ Sleep
    \/ SendWarmupRequest

SpecClient == InitClient /\ [][NextClient]_vars

\* The client is one sequential program and each of its HTTP calls has a
\* timeout: a step that can be taken is taken.
FairSpecClient == SpecClient /\ WF_vars(NextClient)

-----------------------------------------------------------------------------
(* Properties of the warm-up client (checked under FairSpecClient) *)

\* wait_for_model_loaded is running
Waiting == client.pc \in {"wait_loop", "check_health", "inspect", "sleep"}

\* C33: with wait_for_load true, warmup() sends the warm-up request only
\* after a health response reported model_loaded, and sends none and
\* returns False when the wait times out; wait_for_model_loaded always
\* terminates (True on the first health response with model_loaded, False
\* once the timeout elapses, a failed health check counting as not loaded);
\* warmup() returns True only when the warm-up request itself succeeded.
C33_WarmupOrdering ==
    /\ []((client.wait_for_load /\ client.posts > 0) =>
            (client.seen_loaded /\ client.waited = "True"))
    /\ [](client.waited = "False" =>
            /\ client.posts = 0
            /\ client.result = "False"
            /\ client.pc = "returned"
            /\ client.now - client.start_time >= client.timeout)
    /\ Waiting ~> (client.waited # "none")
    /\ [][(client.pc = "inspect" /\ client' # client) =>
            /\ (client.health = HealthDict({TRUE})) =>
                  (client'.waited = "True" /\ client'.pc = "send")
            /\ (client.health # HealthDict({TRUE})) =>
                  (client'.waited = "none" /\ client'.pc = "sleep")]_vars
    /\ [](client.waited = "True" =>
            (client.health = HealthDict({TRUE}) /\ client.seen_loaded))
    /\ [](client.result = "True" => (client.posts = 1 /\ client.post_ok))
    /\ [](client.posts <= 1)

\* a wait that polled more than once, saw the model loaded and was followed
\* by a successful warm-up request
C33_Witness ==
    /\ client.wait_for_load
    /\ client.polls >= 2
    /\ client.waited = "True"
    /\ client.posts = 1
    /\ client.result = "True"

\* a wait that polled and timed out: nothing was sent
C33_TimedOut ==
    /\ client.polls >= 2
    /\ client.waited = "False"
    /\ client.result = "False"

=============================================================================
